---- MODULE Spec2Model ----
(***************************************************************************)
(* GreenFolio: the ESG eligibility filter, the portfolio series builder,   *)
(* the performance metrics and the portfolio aggregation of                *)
(* src/data_manager.py, as state machines.                                 *)
(*                                                                         *)
(* Numbers.  ESG scores are whole numbers in the scores' own unit (the     *)
(* thresholds 4.0, 20.0, ... of the source are 4, 20, ...).  Prices,       *)
(* returns, normalised weights and values are exact fractions <<num, den>> *)
(* in lowest terms with den > 0; <<0, 0>> is pandas' NaN.                  *)
(***************************************************************************)
EXTENDS Integers, Sequences, FiniteSets, TLC

VARIABLES
    pc,               \* position of the caller: "idle", then the call made
    stocks,           \* filter_stocks_by_preference: the argument `stocks`
    preference,       \* filter_stocks_by_preference: the argument `preference`
    filtered_stocks,  \* filter_stocks_by_preference: the returned list
    refiltered_stocks,\* the list returned when filtered_stocks is filtered again
    tickers,          \* get_portfolio_historical_data: the argument `tickers`
    weights,          \* get_portfolio_historical_data: the argument `weights`
    loop_index,       \* position of `for ticker, weight in zip(...)`
    hist,             \* the Close series the data source returned, by ticker
    locals,           \* data, returns, valid_tickers, valid_weights
    normalized_weights,
    portfolio_returns,\* second element of the returned pair
    portfolio_value,  \* first element of the returned pair
    benchmark,        \* get_benchmark_data: the argument `benchmark`
    benchmark_returns,\* get_benchmark_data: second element of the returned pair
    benchmark_values, \* get_benchmark_data: first element of the returned pair
    error_logged,     \* an except branch ran (logger.error)
    metrics_returns,  \* calculate_metrics: the argument `returns`
    metrics_benchmark,\* calculate_metrics: the argument `benchmark_returns`
    performance_metrics, \* calculate_metrics: the returned dict
    portfolio,        \* calculate_portfolio_metrics: the argument `portfolio`
    sustainability_preference, \* its argument of that name ("" for None)
    stock_data,       \* what get_stock_data returns at line 284, by ticker
    price_history,    \* what stock.history(start, end) does, by ticker
    working_portfolio,\* the local `portfolio` from line 299 on
    queried,          \* the symbols the call asked the data source about
    stock_cache,      \* st.cache_data of get_stock_data: the entry of a ticker
    stock_feed,       \* by ticker: the calls that find its entry expired,
                      \* and what yfinance holds at each call
    later_data,       \* what get_stock_data returns at lines 319 and 327
    objects,          \* the identity of each list and dict (0: not built)
    metrics,          \* calculate_portfolio_metrics: the returned dict
    item_index,       \* position of the loop over the items that runs
    stocks_data,      \* calculate_portfolio_metrics: the list of line 282
    valid_weights,    \* calculate_portfolio_metrics: the list of line 317
    data,             \* calculate_portfolio_metrics: `data` of line 327
    items,            \* the dicts get_stock_data returned so far (their
                      \* number) and which of them the lists stocks_data
                      \* and filtered_stocks hold
    history_cache,    \* st.cache_data of the two history functions
    history_feed,     \* the calls (by line) that find their entry expired
    period,           \* the arguments start_date and end_date ("": None)
    exception,        \* the exception that left the call ("": none)
    stack,            \* the positions the calls in progress return to
    all_stocks,       \* app.py: the local list of lines 126 and 150
    widgets,          \* app.py: what the widgets return in this run
    run_session,      \* app.py: st.session_state when the run started
    runs,             \* app.py: the script runs started so far
    session_state     \* app.py: st.session_state

filterVars == <<stocks, preference, filtered_stocks, refiltered_stocks>>

seriesVars ==
    <<tickers, weights, loop_index, hist, locals, normalized_weights,
      portfolio_returns, portfolio_value, benchmark, benchmark_returns,
      benchmark_values, error_logged>>

metricsVars == <<metrics_returns, metrics_benchmark, performance_metrics>>

portfolioVars ==
    <<portfolio, sustainability_preference, stock_data, price_history,
      working_portfolio, queried, stock_cache, stock_feed, later_data,
      objects, metrics, item_index, stocks_data, valid_weights, data, items,
      history_cache, history_feed, period, exception, stack, all_stocks,
      widgets, run_session, runs>>

vars == <<pc, filterVars, seriesVars, metricsVars, portfolioVars, session_state>>

----------------------------------------------------------------------------
(* Bounds of the explored inputs *)

\* sub-scores (env, soc, gov) range over 0..MaxSubScore
MaxSubScore == 15
\* total scores range over 0..MaxTotal
MaxTotal == 25
\* longest list of sample stocks handed to the filter
MaxStocks == 3
\* most tickers in a portfolio handed to the series builder
MaxTickers == 2
\* trading dates are 1..MaxDates
MaxDates == 3
\* longest return series handed to calculate_metrics
MaxReturns == 3

----------------------------------------------------------------------------
(* filter_stocks_by_preference, src/data_manager.py:18-69 *)

\* min(...) and max(...) of Python, on whole numbers
MinOf(S) == CHOOSE x \in S : \A y \in S : x <= y

MaxOf(S) == CHOOSE x \in S : \A y \in S : x >= y

\* dict.get(key, default)
Get(stock, key, default) == IF key \in DOMAIN stock THEN stock[key] ELSE default

env_score(stock) == Get(stock, "env", Get(stock, "environmental_score", 0))

soc_score(stock) == Get(stock, "soc", Get(stock, "social_score", 0))

gov_score(stock) == Get(stock, "gov", Get(stock, "governance_score", 0))

\* mutant: a missing total counts as the worst score instead of the best
total_score_MissingIsWorst(stock) ==
    Get(stock, "total", Get(stock, "esg_score", 100))

total_score(stock) == Get(stock, "total", Get(stock, "esg_score", 0))

\* mutant: the environmental threshold is not strict
NetZeroCond_NotStrict(stock) ==
    /\ env_score(stock) <= 4
    /\ total_score(stock) < 20
    /\ MaxOf({soc_score(stock), gov_score(stock)}) < 12

NetZeroCond(stock) ==
    /\ env_score(stock) < 4
    /\ total_score(stock) < 20
    /\ MaxOf({soc_score(stock), gov_score(stock)}) < 12

\* mutant: all three of the "at least one good score" tests are required
MultiThematicCond_AllGood(stock) ==
    /\ total_score(stock) < 22
    /\ MaxOf({env_score(stock), soc_score(stock), gov_score(stock)}) < 10
    /\ (env_score(stock) < 8 /\ soc_score(stock) < 8 /\ gov_score(stock) < 5)

MultiThematicCond(stock) ==
    /\ total_score(stock) < 22
    /\ MaxOf({env_score(stock), soc_score(stock), gov_score(stock)}) < 10
    /\ (env_score(stock) < 8 \/ soc_score(stock) < 8 \/ gov_score(stock) < 5)

\* mutant: the first test reads the environmental score
SolidaireCond_ReadsEnv(stock) ==
    /\ env_score(stock) < 8
    /\ gov_score(stock) < 6
    /\ total_score(stock) < 25

SolidaireCond(stock) ==
    /\ soc_score(stock) < 8
    /\ gov_score(stock) < 6
    /\ total_score(stock) < 25

\* mutant: the default rule forgets the individual scores
DefaultCond_TotalOnly(stock) == total_score(stock) < 25

DefaultCond(stock) ==
    /\ total_score(stock) < 25
    /\ MaxOf({env_score(stock), soc_score(stock), gov_score(stock)}) < 15

\* the if / elif / elif / else chain on `preference`
Eligible(stock, pref) ==
    IF pref = "Net Zéro" THEN NetZeroCond(stock)
    ELSE IF pref = "Multi-thématique ESG" THEN MultiThematicCond(stock)
    ELSE IF pref = "Solidaire" THEN SolidaireCond(stock)
    ELSE DefaultCond(stock)

\* mutant: the kept stock is put in front of the list
FilterStep_Prepend(acc, stock, pref) ==
    IF Eligible(stock, pref) THEN <<stock>> \o acc ELSE acc

\* one iteration of `for stock in stocks`
FilterStep(acc, stock, pref) ==
    IF Eligible(stock, pref) THEN Append(acc, stock) ELSE acc

RECURSIVE FilterLoop(_, _, _, _)
FilterLoop(acc, list, i, pref) ==
    IF i > Len(list) THEN acc
    ELSE FilterLoop(FilterStep(acc, list[i], pref), list, i + 1, pref)

\* mutant: the loop starts one element late
filter_stocks_by_preference_SkipFirst(list, pref) ==
    IF list = <<>> THEN <<>> ELSE FilterLoop(<<>>, list, 2, pref)

filter_stocks_by_preference(list, pref) ==
    IF list = <<>> THEN <<>> ELSE FilterLoop(<<>>, list, 1, pref)

----------------------------------------------------------------------------
(* Inputs of the filter *)

\* a record as get_stock_data builds it (the keys the filter reads)
StockData(ticker, total, env, soc, gov) ==
    [ticker |-> ticker, esg_score |-> total, environmental_score |-> env,
     social_score |-> soc, governance_score |-> gov]

ScoreKeys ==
    {"env", "soc", "gov", "total",
     "environmental_score", "social_score", "governance_score", "esg_score"}

\* every combination of the four scores
GridStocks ==
    { StockData("T", t, e, s, g) :
        t \in 0..MaxTotal, e \in 0..MaxSubScore,
        s \in 0..MaxSubScore, g \in 0..MaxSubScore }

\* the lists handed to the filter:
\*   one stock of the grid;
\*   one record with any of the eight score keys missing, a present score
\*     either low enough for every rule (3) or too high for every rule (30);
\*   every list of at most MaxStocks of a few distinguishable stocks (one
\*     passes every rule, the others fail some of them)
FilterInputs ==
    LET partial ==
            { [k \in D |-> IF k \in H THEN 30 ELSE 3] :
                D \in SUBSET ScoreKeys, H \in SUBSET ScoreKeys }
        samples ==
            { StockData("A", 10, 2, 3, 2), StockData("B", 15, 3, 4, 3),
              StockData("C", 19, 10, 4, 5), StockData("D", 21, 5, 9, 7),
              StockData("E", 24, 3, 7, 5), StockData("F", 30, 16, 13, 1) }
        RECURSIVE ListsUpTo(_)
        ListsUpTo(n) ==
            IF n = 0 THEN {<<>>}
            ELSE LET shorter == ListsUpTo(n - 1)
                 IN  shorter \cup { Append(l, x) : l \in shorter, x \in samples }
    IN  { <<x>> : x \in GridStocks \cup partial } \cup ListsUpTo(MaxStocks)

----------------------------------------------------------------------------
(* The filter's caller *)

\* an optional value: None, or the value in a one-element tuple
None == <<>>

Some(x) == <<x>>

\* the dict calculate_portfolio_metrics starts from (lines 266-275); a dict
\* is a function from its keys, {} the function without keys
EmptyMetrics ==
    [volatility |-> <<0, 1>>,
     esg_score |-> <<0, 1>>,
     environmental_score |-> <<0, 1>>,
     social_score |-> <<0, 1>>,
     governance_score |-> <<0, 1>>,
     sector_exposure |-> <<>>,
     country_exposure |-> <<>>,
     performance_metrics |-> <<>>]

\* the locals of get_portfolio_historical_data before its loop;
\* pd.DataFrame() has no index and no column
EmptyLocals ==
    [data |-> [index |-> {}, cols |-> <<>>],
     returns |-> [index |-> {}, cols |-> <<>>],
     valid_tickers |-> <<>>, valid_weights |-> <<>>]

\* the lists and dicts of a call of calculate_portfolio_metrics: the
\* caller's mapping, the list of line 282, the list the filter returns, the
\* dict of line 293, the dicts of lines 266-275 and the one of line 314
ObjectNames ==
    {"portfolio", "stocks_data", "filtered_stocks", "filtered_portfolio",
     "metrics", "sector_exposure", "country_exposure", "performance_metrics"}

NoObjects == [n \in ObjectNames |-> 0]

\* the identities in use
Identities(objs) == {objs[n] : n \in ObjectNames} \ {0}

\* a list or dict display, or a comprehension, builds a new object and
\* binds the name to it
Build(objs, name) ==
    LET used == Identities(objs) \cup {0}
    IN  [objs EXCEPT ![name] =
            1 + CHOOSE i \in used : \A j \in used : j <= i]

RECURSIVE BuildAll(_, _)
BuildAll(objs, names) ==
    IF names = <<>> THEN objs
    ELSE BuildAll(Build(objs, Head(names)), Tail(names))

\* config.py DEFAULT_TICKERS, its tickers in the order of the categories
DEFAULT_TICKERS == <<"A", "B">>

\* no script run: the widgets return nothing
NoWidgets ==
    [button |-> "", risk_profile |-> "", sust_pref |-> "", benchmark |-> "",
     period |-> <<"", "">>]

\* nothing called yet; the session is the one of a first script run
\* (app.py lines 54-61)
Init ==
    /\ session_state =
        [portfolio |-> <<>>, risk_profile |-> "Équilibré",
         sustainability_preference |-> "Multi-thématique ESG",
         filtered_stocks |-> <<>>]
    /\ pc = "idle"
    /\ stocks = <<>>
    /\ preference = ""
    /\ filtered_stocks = <<>>
    /\ refiltered_stocks = <<>>
    /\ tickers = <<>>
    /\ weights = <<>>
    /\ loop_index = 1
    /\ hist = <<>>
    /\ locals = EmptyLocals
    /\ normalized_weights = <<>>
    /\ portfolio_returns = <<>>
    /\ portfolio_value = <<>>
    /\ benchmark = ""
    /\ benchmark_returns = <<>>
    /\ benchmark_values = <<>>
    /\ error_logged = FALSE
    /\ metrics_returns = <<>>
    /\ metrics_benchmark = None
    /\ performance_metrics = <<>>
    /\ portfolio = <<>>
    /\ sustainability_preference = ""
    /\ stock_data = <<>>
    /\ price_history = <<>>
    /\ working_portfolio = <<>>
    /\ queried = {}
    /\ stock_cache = <<>>
    /\ stock_feed = <<>>
    /\ later_data = <<>>
    /\ objects = NoObjects
    /\ metrics = EmptyMetrics
    /\ item_index = 1
    /\ stocks_data = <<>>
    /\ valid_weights = <<>>
    /\ data = None
    /\ items = [returned |-> 0, stocks_data |-> <<>>, filtered_stocks |-> <<>>]
    /\ history_cache = <<>>
    /\ history_feed = {}
    /\ period = <<"", "">>
    /\ exception = ""
    /\ stack = <<>>
    /\ all_stocks = <<>>
    /\ widgets = NoWidgets
    /\ run_session = <<>>
    /\ runs = 0

\* a call filter_stocks_by_preference(list, pref): pref is one of the three
\* names of SUSTAINABILITY_PREFERENCES, a misspelled one, or none
FilterCall ==
    /\ pc = "idle"
    /\ \E list \in FilterInputs,
          pref \in {"Net Zéro", "Multi-thématique ESG", "Solidaire",
                    "Net Zero", ""} :
        /\ stocks' = list
        /\ preference' = pref
        /\ filtered_stocks' = filter_stocks_by_preference(list, pref)
    /\ pc' = "filtered"
    /\ UNCHANGED <<refiltered_stocks, seriesVars, metricsVars, portfolioVars, session_state>>

\* the caller filters the returned list again, with the same preference
FilterAgain ==
    /\ pc = "filtered"
    /\ refiltered_stocks' = filter_stocks_by_preference(filtered_stocks, preference)
    /\ pc' = "refiltered"
    /\ UNCHANGED <<stocks, preference, filtered_stocks, seriesVars,
                   metricsVars, portfolioVars, session_state>>

NextFilter == FilterCall \/ FilterAgain

SpecFilter == Init /\ [][NextFilter]_vars

----------------------------------------------------------------------------
(* The eligibility rules as stated, on the scores a record carries *)

\* a score that the record carries under its short or its long key
Carries(s, short, long) == short \in DOMAIN s \/ long \in DOMAIN s

ScoreOf(s, short, long) == IF short \in DOMAIN s THEN s[short] ELSE s[long]

Scored(s) ==
    /\ Carries(s, "env", "environmental_score")
    /\ Carries(s, "soc", "social_score")
    /\ Carries(s, "gov", "governance_score")
    /\ Carries(s, "total", "esg_score")

EnvOf(s) == ScoreOf(s, "env", "environmental_score")

SocOf(s) == ScoreOf(s, "soc", "social_score")

GovOf(s) == ScoreOf(s, "gov", "governance_score")

TotalOf(s) == ScoreOf(s, "total", "esg_score")

NetZeroRule(s) ==
    EnvOf(s) < 4 /\ TotalOf(s) < 20 /\ SocOf(s) < 12 /\ GovOf(s) < 12

MultiThematicRule(s) ==
    /\ TotalOf(s) < 22
    /\ EnvOf(s) < 10 /\ SocOf(s) < 10 /\ GovOf(s) < 10
    /\ (EnvOf(s) < 8 \/ SocOf(s) < 8 \/ GovOf(s) < 5)

SolidarityRule(s) == SocOf(s) < 8 /\ GovOf(s) < 6 /\ TotalOf(s) < 25

DefaultRule(s) ==
    TotalOf(s) < 25 /\ EnvOf(s) < 15 /\ SocOf(s) < 15 /\ GovOf(s) < 15

KnownNames == {"Net Zéro", "Multi-thématique ESG", "Solidaire"}

RuleOf(s, pref) ==
    CASE pref = "Net Zéro" -> NetZeroRule(s)
      [] pref = "Multi-thématique ESG" -> MultiThematicRule(s)
      [] pref = "Solidaire" -> SolidarityRule(s)
      [] OTHER -> DefaultRule(s)

\* the record with every missing score written as an explicit 0
ZeroFilled(s) ==
    LET missing ==
            { long \in {"environmental_score", "social_score",
                        "governance_score", "esg_score"} :
                \/ long = "environmental_score" /\ ~Carries(s, "env", long)
                \/ long = "social_score" /\ ~Carries(s, "soc", long)
                \/ long = "governance_score" /\ ~Carries(s, "gov", long)
                \/ long = "esg_score" /\ ~Carries(s, "total", long) }
    IN  [k \in DOMAIN s \cup missing |-> IF k \in DOMAIN s THEN s[k] ELSE 0]

Returned == pc \in {"filtered", "refiltered"}

InResult(s) == \E j \in DOMAIN filtered_stocks : filtered_stocks[j] = s

\* C1: under "Net Zéro" a scored asset is in the result iff env < 4 and
\* total < 20 and max(soc, gov) < 12 (strictly); an asset with env >= 4 is
\* never in the result.
C1_NetZero ==
    (Returned /\ preference = "Net Zéro") =>
        \A i \in DOMAIN stocks :
            Scored(stocks[i]) =>
                /\ InResult(stocks[i]) <=> NetZeroRule(stocks[i])
                /\ EnvOf(stocks[i]) >= 4 => ~InResult(stocks[i])

\* the scenario of the specification: env = 5, every other score as good as
\* can be, and the asset is rejected
C1_Witness ==
    /\ pc = "filtered" /\ preference = "Net Zéro"
    /\ stocks = <<StockData("T", 0, 5, 0, 0)>>
    /\ filtered_stocks = <<>>

\* C2: under "Multi-thématique ESG" a scored asset is in the result iff
\* total < 22 and max(env, soc, gov) < 10 and (env < 8 or soc < 8 or gov < 5).
C2_MultiThematic ==
    (Returned /\ preference = "Multi-thématique ESG") =>
        \A i \in DOMAIN stocks :
            Scored(stocks[i]) =>
                (InResult(stocks[i]) <=> MultiThematicRule(stocks[i]))

\* env and soc both at 8 or more, the asset is kept by gov < 5 alone
C2_Witness ==
    /\ pc = "filtered" /\ preference = "Multi-thématique ESG"
    /\ stocks = <<StockData("T", 21, 9, 8, 4)>>
    /\ filtered_stocks = stocks

\* C3: under "Solidaire" a scored asset is in the result iff soc < 8 and
\* gov < 6 and total < 25, whatever its environmental score.
C3_Solidarity ==
    (Returned /\ preference = "Solidaire") =>
        \A i \in DOMAIN stocks :
            Scored(stocks[i]) =>
                (InResult(stocks[i]) <=> SolidarityRule(stocks[i]))

\* the worst environmental score of the grid, and the asset is kept
C3_Witness ==
    /\ pc = "filtered" /\ preference = "Solidaire"
    /\ stocks = <<StockData("T", 24, MaxSubScore, 7, 5)>>
    /\ filtered_stocks = stocks

\* C4: under a name that is none of the three known ones the call returns,
\* and a scored asset is in the result iff total < 25 and
\* max(env, soc, gov) < 15.
C4_Default ==
    (Returned /\ preference \notin KnownNames) =>
        \A i \in DOMAIN stocks :
            Scored(stocks[i]) =>
                (InResult(stocks[i]) <=> DefaultRule(stocks[i]))

\* the misspelled name, an asset only the default rule accepts
C4_Witness ==
    /\ pc = "filtered" /\ preference = "Net Zero"
    /\ stocks = <<StockData("T", 24, 14, 14, 14)>>
    /\ filtered_stocks = stocks

\* C5: the result is the input with the assets that fail the strategy's rule
\* removed: every occurrence of a passing asset is kept, in input order.
C5_Subsequence ==
    Returned =>
        LET Passes(s) == RuleOf(ZeroFilled(s), preference)
        IN  filtered_stocks = SelectSeq(stocks, Passes)

\* a list with a repeated asset around a rejected one
C5_Witness ==
    /\ pc = "filtered"
    /\ Len(stocks) = 3 /\ stocks[1] = stocks[3] /\ stocks[2] # stocks[1]
    /\ filtered_stocks = <<stocks[1], stocks[3]>>

\* C6: filtering the result again with the same preference returns it as is.
C6_Idempotent == pc = "refiltered" => refiltered_stocks = filtered_stocks

\* the first call removed something and kept something
C6_Witness ==
    /\ pc = "refiltered"
    /\ Len(stocks) = 3 /\ Len(filtered_stocks) = 2
    /\ refiltered_stocks = filtered_stocks

\* C7: a missing score counts as 0: an asset with a score missing is in the
\* result iff the same asset with 0 for that score passes the rule, and an
\* asset with no score at all is in the result under every preference.
C7_MissingIsZero ==
    Returned =>
        \A i \in DOMAIN stocks :
            /\ ~Scored(stocks[i]) =>
                (InResult(stocks[i]) <=> RuleOf(ZeroFilled(stocks[i]), preference))
            /\ DOMAIN stocks[i] \cap ScoreKeys = {} => InResult(stocks[i])

\* the empty record passes the strictest rule
C7_Witness ==
    /\ pc = "filtered" /\ preference = "Net Zéro"
    /\ Len(stocks) = 1 /\ DOMAIN stocks[1] = {}
    /\ filtered_stocks = stocks

----------------------------------------------------------------------------
(* Numbers of the series: exact fractions <<num, den>>, den > 0, in lowest *)
(* terms; <<0, 0>> is NaN, which every arithmetic operation propagates     *)

RECURSIVE GCD(_, _)
GCD(a, b) == IF b = 0 THEN a ELSE GCD(b, a % b)

Abs(n) == IF n < 0 THEN -n ELSE n

NaN == <<0, 0>>

IsNaN(x) == x[2] = 0

\* n / d for d # 0
Frac(n, d) ==
    LET g == GCD(Abs(n), Abs(d))
        s == IF d < 0 THEN -1 ELSE 1
    IN  <<(s * n) \div g, (s * d) \div g>>

Number(n) == <<n, 1>>

\* the three operations cancel common factors before they multiply, so that
\* the intermediate products stay small
Add(x, y) ==
    IF IsNaN(x) \/ IsNaN(y) THEN NaN
    ELSE LET g == GCD(x[2], y[2])
         IN  Frac(x[1] * (y[2] \div g) + y[1] * (x[2] \div g),
                  (x[2] \div g) * y[2])

Mul(x, y) ==
    IF IsNaN(x) \/ IsNaN(y) THEN NaN
    ELSE LET a == Frac(x[1], y[2])
             b == Frac(y[1], x[2])
         IN  Frac(a[1] * b[1], a[2] * b[2])

\* x / y on floats: 0 / 0 is NaN.  No nonzero number is divided by zero
\* (there is no infinity here): the divisors of the code are prices, counts,
\* weight sums and variances tested before, and the running maximum of a
\* cumulative product, which is zero only where the product is zero
Div(x, y) ==
    IF IsNaN(x) \/ IsNaN(y) \/ y[1] = 0 THEN NaN
    ELSE LET a == Frac(x[1], y[1])
             b == Frac(y[2], x[2])
         IN  Frac(a[1] * b[1], a[2] * b[2])

Sub(x, y) == Add(x, Mul(Number(-1), y))

\* x < y; every comparison with NaN is false
Less(x, y) ==
    /\ ~IsNaN(x) /\ ~IsNaN(y)
    /\ LET g == GCD(x[2], y[2])
       IN  x[1] * (y[2] \div g) < y[1] * (x[2] \div g)

RECURSIVE Sum(_)
Sum(seq) == IF seq = <<>> THEN 0 ELSE seq[1] + Sum(Tail(seq))

----------------------------------------------------------------------------
(* float64: a double is a binary number of 53 significant bits.  A binary  *)
(* number is kept as the sequence of its bits, IntegerLimbs * LimbBits of  *)
(* them before the binary point and FractionLimbs * LimbBits after it;     *)
(* sums and quotients are computed on its limbs of LimbBits bits and every *)
(* result is rounded to the nearest double, ties to the even one.          *)

\* the significand of a float64
SignificandBits == 53

\* the numbers the model can hold: below 2 ** (IntegerLimbs * LimbBits), in
\* steps of 2 ** -(FractionLimbs * LimbBits)
LimbBits == 10

IntegerLimbs == 2

FractionLimbs == 9

RECURSIVE Pow2(_)
Pow2(k) == IF k = 0 THEN 1 ELSE 2 * Pow2(k - 1)

LimbBase == Pow2(LimbBits)

\* the bits of a sequence of limbs
BitsOf(limbs) ==
    [j \in 1..(Len(limbs) * LimbBits) |->
        (limbs[((j - 1) \div LimbBits) + 1]
            \div Pow2(LimbBits - 1 - ((j - 1) % LimbBits))) % 2]

\* the limbs of a sequence of bits
LimbsOf(bits) ==
    LET RECURSIVE LimbAt(_, _)
        LimbAt(i, k) ==
            IF k = 0 THEN 0
            ELSE 2 * LimbAt(i, k - 1) + bits[(i - 1) * LimbBits + k]
    IN  [i \in 1..(Len(bits) \div LimbBits) |-> LimbAt(i, LimbBits)]

\* the bits of |x| down to the last fraction bit, and whether something is
\* left below them; FractionExpansion(r, d, k) is the first k limbs of r / d
\* after the binary point, for 0 <= r < d, and the remainder left after them
\* as last element
Binary(x) ==
    LET RECURSIVE FractionExpansion(_, _, _)
        FractionExpansion(r, d, k) ==
            IF k = 0 THEN <<r>>
            ELSE <<(LimbBase * r) \div d>>
                     \o FractionExpansion((LimbBase * r) % d, d, k - 1)
        n == Abs(x[1])
        q == n \div x[2]
        expansion == FractionExpansion(n % x[2], x[2], FractionLimbs)
    IN  [bits |-> BitsOf([i \in 1..IntegerLimbs |->
                             (q \div Pow2(LimbBits * (IntegerLimbs - i)))
                                 % LimbBase]
                             \o SubSeq(expansion, 1, FractionLimbs)),
         inexact |-> expansion[FractionLimbs + 1] # 0]

\* round to nearest, ties to even: the 53 bits from the leading one are
\* kept, the rest decides whether the last kept bit is stepped up
RoundToDouble(bits, inexact) ==
    LET ones == {i \in DOMAIN bits : bits[i] = 1}
    IN  IF ones = {} THEN bits
        ELSE LET leading == CHOOSE i \in ones : \A j \in ones : i <= j
                 last == leading + SignificandBits - 1
             IN  IF last >= Len(bits) THEN bits
                 ELSE LET sticky == inexact \/ \E j \in ones : j > last + 1
                          up == /\ bits[last + 1] = 1
                                /\ (sticky \/ bits[last] = 1)
                          zeros == {i \in 1..last : bits[i] = 0}
                          z == CHOOSE i \in zeros : \A j \in zeros : j <= i
                      IN  [i \in DOMAIN bits |->
                              IF up
                              THEN IF i < z THEN bits[i]
                                   ELSE IF i = z THEN 1 ELSE 0
                              ELSE IF i <= last THEN bits[i] ELSE 0]

\* the double nearest to the number |x|
Double(x) == RoundToDouble(Binary(x).bits, Binary(x).inexact)

\* a > b
Greater(a, b) ==
    \E i \in DOMAIN a :
        /\ a[i] > b[i]
        /\ \A j \in 1..(i - 1) : a[j] = b[j]

\* abs(a - b) in float64; SubtractFrom(x, y, i) is <<borrow, limbs i.. of
\* x - y>>
FloatDistance(a, b) ==
    LET RECURSIVE SubtractFrom(_, _, _)
        SubtractFrom(x, y, i) ==
            IF i > Len(x) THEN <<0>>
            ELSE CHOOSE r \in {<<IF x[i] - y[i] - t[1] < 0 THEN 1 ELSE 0,
                                 (x[i] - y[i] - t[1] + LimbBase) % LimbBase>>
                                   \o Tail(t) :
                               t \in {SubtractFrom(x, y, i + 1)}} : TRUE
    IN  IF Greater(b, a)
        THEN RoundToDouble(
                 BitsOf(Tail(SubtractFrom(LimbsOf(b), LimbsOf(a), 1))), FALSE)
        ELSE RoundToDouble(
                 BitsOf(Tail(SubtractFrom(LimbsOf(a), LimbsOf(b), 1))), FALSE)

\* a / n in float64, n a positive count; DivideFrom(x, i, rem) is the
\* quotient limbs i.. of x / n, and the remainder as last element
FloatDivide(a, n) ==
    LET RECURSIVE DivideFrom(_, _, _)
        DivideFrom(x, i, rem) ==
            IF i > Len(x) THEN <<rem>>
            ELSE <<(LimbBase * rem + x[i]) \div n>>
                     \o DivideFrom(x, i + 1, (LimbBase * rem + x[i]) % n)
        q == DivideFrom(LimbsOf(a), 1, 0)
    IN  RoundToDouble(BitsOf(SubSeq(q, 1, Len(q) - 1)), q[Len(q)] # 0)

\* a + b in float64; AddFrom(x, y, i) is <<carry, limbs i.. of x + y>>
FloatAdd(a, b) ==
    LET RECURSIVE AddFrom(_, _, _)
        AddFrom(x, y, i) ==
            IF i > Len(x) THEN <<0>>
            ELSE CHOOSE r \in {<<(x[i] + y[i] + t[1]) \div LimbBase,
                                 (x[i] + y[i] + t[1]) % LimbBase>> \o Tail(t) :
                               t \in {AddFrom(x, y, i + 1)}} : TRUE
    IN  RoundToDouble(BitsOf(Tail(AddFrom(LimbsOf(a), LimbsOf(b), 1))), FALSE)

\* for v in a[lo + 1 .. lo + n]: total += v, on float64
RECURSIVE FloatFold(_, _, _, _)
FloatFold(total, a, lo, n) ==
    IF n = 0 THEN total
    ELSE FloatAdd(FloatFold(total, a, lo, n - 1), a[lo + n])

\* ndarray.sum() of the n doubles a[lo + 1 .. lo + n] (numpy's pairwise
\* summation): below 8 elements one after the other; up to 128 elements
\* eight running sums over the blocks of 8, added in pairs, and the rest one
\* after the other; above 128 the two halves, the first of a multiple of 8.
\* Strided(start, count) is a[start] + a[start + 8] + ..., count of them,
\* one after the other
RECURSIVE PairwiseSum(_, _, _)
PairwiseSum(a, lo, n) ==
    IF n < 8 THEN FloatFold(Double(Number(0)), a, lo, n)
    ELSE IF n <= 128
    THEN LET RECURSIVE Strided(_, _)
             Strided(start, count) ==
                 IF count = 1 THEN a[start]
                 ELSE FloatAdd(Strided(start, count - 1),
                               a[start + 8 * (count - 1)])
             r(j) == Strided(lo + j, n \div 8)
         IN  FloatFold(
                 FloatAdd(FloatAdd(FloatAdd(r(1), r(2)), FloatAdd(r(3), r(4))),
                          FloatAdd(FloatAdd(r(5), r(6)), FloatAdd(r(7), r(8)))),
                 a, lo + 8 * (n \div 8), n % 8)
    ELSE LET n2 == (n \div 2) - ((n \div 2) % 8)
         IN  FloatAdd(PairwiseSum(a, lo, n2), PairwiseSum(a, lo + n2, n - n2))

----------------------------------------------------------------------------
(* pandas: a Series is a function from its index (a set of dates, in date  *)
(* order) to numbers; a DataFrame is an index and its columns              *)

\* Series.pct_change(): value / previous value - 1, NaN at the first row
pct_change(close) ==
    [d \in DOMAIN close |->
        IF d = MinOf(DOMAIN close) THEN NaN
        ELSE LET prev == MaxOf({x \in DOMAIN close : x < d})
             IN  Add(Div(close[d], close[prev]), Number(-1))]

\* alignment of a Series on an index: NaN where the Series has no row
reindex(series, index) ==
    [d \in index |-> IF d \in DOMAIN series THEN series[d] ELSE NaN]

\* frame[ticker] = series: a frame without rows takes the index of the
\* series, any other frame aligns the series on its own index
setitem(frame, ticker, series) ==
    IF frame.index = {}
    THEN [index |-> DOMAIN series, cols |-> (ticker :> series)]
    ELSE [index |-> frame.index,
          cols |-> (ticker :> reindex(series, frame.index)) @@ frame.cols]

\* Series.cumprod(): NaN rows stay NaN and are skipped by the product
cumprod(series) ==
    LET RECURSIVE ProdOver(_)
        ProdOver(D) ==
            IF D = {} THEN Number(1)
            ELSE LET m == MaxOf(D)
                 IN  Mul(ProdOver(D \ {m}), series[m])
    IN  [d \in DOMAIN series |->
            IF IsNaN(series[d]) THEN NaN
            ELSE ProdOver({x \in DOMAIN series : x <= d /\ ~IsNaN(series[x])})]

----------------------------------------------------------------------------
(* get_portfolio_historical_data, src/data_manager.py:139-182 *)

\* mutant: the weight is kept even when the ticker has no price
HistLoopBody_KeepsWeight(loc, ticker, weight, close) ==
    IF DOMAIN close # {}
    THEN [data |-> setitem(loc.data, ticker, close),
          returns |-> setitem(loc.returns, ticker, pct_change(close)),
          valid_tickers |-> Append(loc.valid_tickers, ticker),
          valid_weights |-> Append(loc.valid_weights, weight)]
    ELSE [loc EXCEPT !.valid_weights = Append(loc.valid_weights, weight)]

\* the body of `for ticker, weight in zip(tickers, weights)` once
\* stock.history() has returned `close` (no row: hist.empty)
HistLoopBody(loc, ticker, weight, close) ==
    IF DOMAIN close # {}
    THEN [data |-> setitem(loc.data, ticker, close),
          returns |-> setitem(loc.returns, ticker, pct_change(close)),
          valid_tickers |-> Append(loc.valid_tickers, ticker),
          valid_weights |-> Append(loc.valid_weights, weight)]
    ELSE loc

total_weight(wts) == Sum(wts)

\* [w/total_weight for w in valid_weights], total_weight # 0
NormalizeWeights(wts) ==
    [k \in DOMAIN wts |-> Frac(wts[k], total_weight(wts))]

\* pd.Series(0, index=returns.index), then the += of every valid ticker;
\* PortfolioReturnAt(k, d) is the row d after the += of the first k valid
\* tickers
PortfolioReturns(returns, valid_tickers, norm) ==
    LET RECURSIVE PortfolioReturnAt(_, _)
        PortfolioReturnAt(k, d) ==
            IF k = 0 THEN Number(0)
            ELSE Add(PortfolioReturnAt(k - 1, d),
                     Mul(returns.cols[valid_tickers[k]][d], norm[k]))
    IN  [d \in returns.index |-> PortfolioReturnAt(Len(valid_tickers), d)]

\* series + c
AddScalar(series, c) == [d \in DOMAIN series |-> Add(series[d], c)]

\* (1 + portfolio_returns).cumprod() * 100
PortfolioValue(returns_series) ==
    LET cum_returns == cumprod(AddScalar(returns_series, Number(1)))
    IN  [d \in DOMAIN cum_returns |-> Mul(cum_returns[d], Number(100))]

----------------------------------------------------------------------------
(* The data source (yfinance) *)

TickerNames == <<"A", "B", "C", "D">>

Dates == 1..MaxDates

\* weights handed to the series builder
Weights == {0, 1, 2}

\* closing prices follow one of two paths, "rise" and "fall"
PathPrice(path, d) == IF path = "rise" THEN d ELSE MaxDates + 1 - d

\* hist['Close'] of one ticker over the date range: no row at all, or a
\* price on each date the ticker traded
CloseSeries ==
    {<<>>} \cup
    { [d \in D |-> Number(PathPrice(path, d))] :
        D \in (SUBSET Dates) \ {{}}, path \in {"rise", "fall"} }

\* stock.history() returns a frame or raises
FetchOutcomes ==
    {[raises |-> TRUE, close |-> <<>>]} \cup
    { [raises |-> FALSE, close |-> c] : c \in CloseSeries }

----------------------------------------------------------------------------
(* Calls of the series builder and of the benchmark loader *)

\* get_portfolio_historical_data(tickers, weights) up to its loop; the two
\* lists are the keys and the values of one dict, so they have one length
HistCall ==
    /\ pc = "idle"
    /\ \E n \in 0..MaxTickers :
        \E w \in [1..n -> Weights] :
            /\ tickers' = SubSeq(TickerNames, 1, n)
            /\ weights' = w
            /\ pc' = IF n = 0 THEN "done" ELSE "fetching"
    /\ UNCHANGED <<filterVars, loop_index, hist, locals, normalized_weights,
                   portfolio_returns, portfolio_value, benchmark,
                   benchmark_returns, benchmark_values, error_logged,
                   metricsVars, portfolioVars, session_state>>

\* lines 163-182 with the locals `loc` the loop has left: the normalized
\* weights, the returned pair, and whether the except branch ran
HistResult(loc) ==
    IF loc.data.index = {} \/ loc.valid_tickers = <<>>
    THEN [normalized_weights |-> <<>>, portfolio_returns |-> <<>>,
          portfolio_value |-> <<>>, raised |-> FALSE]
    ELSE IF total_weight(loc.valid_weights) = 0
    THEN \* ZeroDivisionError, caught by the except branch
         [normalized_weights |-> <<>>, portfolio_returns |-> <<>>,
          portfolio_value |-> <<>>, raised |-> TRUE]
    ELSE LET norm == NormalizeWeights(loc.valid_weights)
             pr == PortfolioReturns(loc.returns, loc.valid_tickers, norm)
         IN  [normalized_weights |-> norm, portfolio_returns |-> pr,
              portfolio_value |-> PortfolioValue(pr), raised |-> FALSE]

\* the history of the next ticker arrives (or the fetch raises): one
\* iteration of the loop and, after the last ticker, the rest of the function
HistFetch ==
    /\ pc = "fetching"
    /\ loop_index <= Len(tickers)
    /\ \E out \in FetchOutcomes :
        IF out.raises
        THEN /\ error_logged' = TRUE
             /\ pc' = "done"
             /\ UNCHANGED <<hist, locals, loop_index, normalized_weights,
                            portfolio_returns, portfolio_value>>
        ELSE LET loc == HistLoopBody(locals, tickers[loop_index],
                                     weights[loop_index], out.close)
             IN  /\ hist' = (tickers[loop_index] :> out.close) @@ hist
                 /\ locals' = loc
                 /\ loop_index' = loop_index + 1
                 /\ IF loop_index = Len(tickers)
                    THEN \E result \in {HistResult(loc)} :
                             /\ pc' = "done"
                             /\ normalized_weights' = result.normalized_weights
                             /\ portfolio_returns' = result.portfolio_returns
                             /\ portfolio_value' = result.portfolio_value
                             /\ error_logged' = result.raised
                    ELSE UNCHANGED <<pc, normalized_weights, portfolio_returns,
                                     portfolio_value, error_logged>>
    /\ UNCHANGED <<filterVars, tickers, weights, benchmark,
                   benchmark_returns, benchmark_values, metricsVars,
                   portfolioVars, session_state>>

\* lines 196-203 of get_benchmark_data: the returned pair for the Close
\* series the data source handed
BenchmarkResult(close_prices) ==
    IF DOMAIN close_prices = {}
    THEN [normalized |-> <<>>, returns |-> <<>>]
    ELSE LET first == close_prices[MinOf(DOMAIN close_prices)]
         IN  [normalized |-> [d \in DOMAIN close_prices |->
                                Mul(Div(close_prices[d], first), Number(100))],
              returns |-> pct_change(close_prices)]

\* get_benchmark_data(benchmark), src/data_manager.py:185-207
BenchmarkCall ==
    /\ pc = "idle"
    /\ pc' = "benchmark_done"
    /\ \E name \in {"", "^GSPC"}, out \in FetchOutcomes :
        /\ benchmark' = name
        /\ IF name = ""
           THEN UNCHANGED <<hist, benchmark_returns, benchmark_values,
                            error_logged>>
           ELSE IF out.raises
           THEN /\ error_logged' = TRUE
                /\ UNCHANGED <<hist, benchmark_returns, benchmark_values>>
           ELSE /\ hist' = (name :> out.close)
                /\ UNCHANGED error_logged
                /\ benchmark_returns' = BenchmarkResult(out.close).returns
                /\ benchmark_values' = BenchmarkResult(out.close).normalized
    /\ UNCHANGED <<filterVars, tickers, weights, loop_index, locals,
                   normalized_weights, portfolio_returns, portfolio_value,
                   metricsVars, portfolioVars, session_state>>

NextSeries == HistCall \/ HistFetch \/ BenchmarkCall

SpecSeries == Init /\ [][NextSeries]_vars

----------------------------------------------------------------------------
(* Properties of the series *)

\* the positions of `tickers` whose Close series has at least one price
Kept == {k \in DOMAIN tickers : DOMAIN hist[tickers[k]] # {}}

RECURSIVE WeightOver(_)
WeightOver(K) ==
    IF K = {} THEN 0
    ELSE LET k == MinOf(K) IN weights[k] + WeightOver(K \ {k})

RECURSIVE Pick(_, _)
Pick(seq, K) ==
    IF K = {} THEN <<>>
    ELSE LET k == MaxOf(K) IN Append(Pick(seq, K \ {k}), seq[k])

RECURSIVE SumOfFractions(_)
SumOfFractions(seq) ==
    IF seq = <<>> THEN Number(0)
    ELSE Add(seq[1], SumOfFractions(Tail(seq)))

\* the loop of get_portfolio_historical_data ran to its end and returned
LoopCompleted ==
    pc = "done" /\ tickers # <<>> /\ loop_index > Len(tickers)

\* C8: a non-empty value series of get_portfolio_historical_data starts at
\* exactly 100, and the value series is empty iff the return series is.
C8_ValueStartsAt100 ==
    pc = "done" =>
        /\ DOMAIN portfolio_value # {} =>
               portfolio_value[MinOf(DOMAIN portfolio_value)] = Number(100)
        /\ DOMAIN portfolio_value = {} <=> DOMAIN portfolio_returns = {}

\* the returns of the first priced ticker, which the frame holds on the
\* ticker's own dates: one fewer than its prices, none undefined, each the
\* ratio of a price to the one before it minus 1
C9_PerAssetReturns ==
    \A t \in DOMAIN locals.returns.cols :
        t = locals.valid_tickers[1] =>
            LET r == locals.returns.cols[t]
                close == hist[t]
            IN  /\ Cardinality(DOMAIN r) = Cardinality(DOMAIN close) - 1
                /\ \A d \in DOMAIN r :
                       /\ ~IsNaN(r[d])
                       /\ d # MinOf(DOMAIN close)
                       /\ LET prev == MaxOf({x \in DOMAIN close : x < d})
                          IN  r[d] = Add(Div(close[d], close[prev]), Number(-1))

\* the same for the returns get_benchmark_data hands back
C9_BenchmarkReturns ==
    (pc = "benchmark_done" /\ benchmark \in DOMAIN hist
        /\ DOMAIN hist[benchmark] # {}) =>
            LET close == hist[benchmark]
            IN  /\ Cardinality(DOMAIN benchmark_returns)
                       = Cardinality(DOMAIN close) - 1
                /\ \A d \in DOMAIN benchmark_returns :
                       /\ ~IsNaN(benchmark_returns[d])
                       /\ d # MinOf(DOMAIN close)

\* C9: n >= 1 prices give n - 1 returns, the one at date i being
\* price[i]/price[i-1] - 1; the first date is dropped, not kept as an
\* undefined entry; so for the per-asset returns of
\* get_portfolio_historical_data and for the returns of get_benchmark_data.
C9_FirstDateDropped == C9_PerAssetReturns /\ C9_BenchmarkReturns

\* C10: a ticker without prices is dropped and raises nothing; the weights
\* of the others are divided by the sum of the others' weights, so the
\* weights used for the portfolio return sum to 1.
C10_Renormalized ==
    LoopCompleted =>
        /\ locals.valid_tickers = Pick(tickers, Kept)
        /\ error_logged <=> (Kept # {} /\ WeightOver(Kept) = 0)
        /\ (Kept # {} /\ ~error_logged) =>
               /\ normalized_weights =
                      [j \in 1..Cardinality(Kept) |->
                          Frac(Pick(weights, Kept)[j], WeightOver(Kept))]
               /\ SumOfFractions(normalized_weights) = Number(1)
               /\ DOMAIN portfolio_returns # {}

\* the first ticker has no price and a weight, the second is the portfolio
C10_Witness ==
    /\ LoopCompleted /\ ~error_logged
    /\ Len(tickers) = 2 /\ Kept = {2} /\ weights = <<2, 1>>
    /\ normalized_weights = <<Number(1)>>
    /\ DOMAIN portfolio_returns # {}

\* what the asset at position j of the valid tickers adds to the portfolio
\* return at date d: its return times its normalized weight, 0 when the
\* asset has no return at that date
Contribution(j, d) ==
    LET r == pct_change(hist[locals.valid_tickers[j]])
    IN  IF d \in DOMAIN r /\ ~IsNaN(r[d])
        THEN Mul(r[d], normalized_weights[j])
        ELSE Number(0)

\* the dates seen in the series of the valid assets
DatesSeen == UNION {DOMAIN hist[tickers[k]] : k \in Kept}

\* C11: the portfolio return series is defined on the union of the dates of
\* the valid assets' series; at each date it is the sum over the valid assets
\* of return x normalized weight, an asset without observation at the date
\* adding 0 and leaving the date in place and its return defined.
C11_UnionOfDates ==
    (LoopCompleted /\ Kept # {} /\ ~error_logged) =>
        /\ DOMAIN portfolio_returns = DatesSeen
        /\ \A d \in DOMAIN portfolio_returns :
               portfolio_returns[d] =
                   SumOfFractions([j \in DOMAIN locals.valid_tickers |->
                                      Contribution(j, d)])

----------------------------------------------------------------------------
(* pandas statistics: every one of them skips the NaN rows *)

Defined(series) == {d \in DOMAIN series : ~IsNaN(series[d])}

RECURSIVE SumOver(_, _)
SumOver(series, D) ==
    IF D = {} THEN Number(0)
    ELSE LET m == MaxOf(D) IN Add(SumOver(series, D \ {m}), series[m])

\* Series.mean(): NaN without a defined row
mean(series) ==
    LET D == Defined(series)
    IN  IF D = {} THEN NaN
        ELSE Div(SumOver(series, D), Number(Cardinality(D)))

\* Series.cov(other): the rows both series have and define, n - 1 in the
\* denominator, NaN with fewer than two such rows
cov(x, y) ==
    LET D == Defined(x) \cap Defined(y)
        n == Cardinality(D)
    IN  IF n < 2 THEN NaN
        ELSE LET mx == Div(SumOver(x, D), Number(n))
                 my == Div(SumOver(y, D), Number(n))
                 products == [d \in D |-> Mul(Sub(x[d], mx), Sub(y[d], my))]
             IN  Div(SumOver(products, D), Number(n - 1))

\* Series.var(): the sample variance, NaN with fewer than two defined rows
var(series) == cov(series, series)

MaxFrac(S) == CHOOSE x \in S : \A y \in S : ~Less(x, y)

\* mutant: the greatest value of the whole series at every row
expanding_max_Global(series) ==
    [d \in DOMAIN series |->
        IF Defined(series) = {} THEN NaN
        ELSE MaxFrac({series[x] : x \in Defined(series)})]

\* Series.expanding().max(): at each row the greatest defined value so far
expanding_max(series) ==
    [d \in DOMAIN series |->
        LET D == {x \in Defined(series) : x <= d}
        IN  IF D = {} THEN NaN ELSE MaxFrac({series[x] : x \in D})]

\* mutant: Series.max() in place of Series.min()
min_Greatest(series) ==
    IF Defined(series) = {} THEN NaN
    ELSE MaxFrac({series[d] : d \in Defined(series)})

\* Series.min(): NaN without a defined row
min(series) ==
    IF Defined(series) = {} THEN NaN
    ELSE LET S == {series[d] : d \in Defined(series)}
         IN  CHOOSE x \in S : \A y \in S : ~Less(y, x)

\* Series.var() and Series.std() on float64 (nanops.nanvar): the NaN rows
\* of the array are set to 0, the mean avg = values.sum() / count is a
\* rounded sum over the count of the defined rows, and the variance sums the
\* squares of avg - values over them.  For defined values that are all equal
\* the variance is 0.0 when the rounded mean is that value; otherwise every
\* row leaves the residue avg - value and the variance is a positive float.
Residue(series) ==
    LET D == Defined(series)
        rows == Cardinality(DOMAIN series)
        row(k) == CHOOSE d \in DOMAIN series :
                      Cardinality({e \in DOMAIN series : e <= d}) = k
        values == {series[d] : d \in D}
    IN  /\ Cardinality(D) >= 2
        /\ Cardinality(values) = 1
        /\ \E x \in values :
              FloatDivide(
                  PairwiseSum([k \in 1..rows |->
                                  IF IsNaN(series[row(k)])
                                  THEN Double(Number(0)) ELSE Double(x)],
                              0, rows),
                  Cardinality(D)) # Double(x)

----------------------------------------------------------------------------
(* calculate_metrics, src/data_manager.py:209-256                          *)
(*                                                                         *)
(* A metric is a record [kind, a, b, c].  kind "number" is the number a    *)
(* (NaN included).  The other kinds are the irrational results, kept as    *)
(* the expression over their rational arguments: a power of 252 or a       *)
(* square root is never rounded.  The kinds named "residue" are the floats *)
(* computed from the residue of the mean of a constant series, of          *)
(* magnitude 1e-17 (a standard deviation) or 1e+16 (a ratio over it).      *)

Exact(x) == [kind |-> "number", a |-> x, b |-> Number(0), c |-> Number(0)]

\* Series.std() = sqrt(var)
std(series) ==
    LET v == var(series)
    IN  IF IsNaN(v) THEN Exact(v)
        ELSE IF v = Number(0)
        THEN IF Residue(series)
             THEN [kind |-> "sqrt(var of the residue of mean a)",
                   a |-> mean(series), b |-> Number(0), c |-> Number(0)]
             ELSE Exact(v)
        ELSE [kind |-> "sqrt(a)", a |-> v, b |-> Number(0), c |-> Number(0)]

\* (1 + m) ** 252 - 1
Annualized(m) ==
    IF IsNaN(m) \/ m = Number(0) THEN Exact(m)
    ELSE [kind |-> "(1+a)**252-1", a |-> m, b |-> Number(0), c |-> Number(0)]

\* returns.std() * np.sqrt(252)
annualized_volatility(returns) ==
    LET v == var(returns)
    IN  IF IsNaN(v) THEN Exact(v)
        ELSE IF v = Number(0)
        THEN IF Residue(returns)
             THEN [kind |-> "sqrt(var of the residue of mean a)*sqrt(252)",
                   a |-> mean(returns), b |-> Number(0), c |-> Number(0)]
             ELSE Exact(v)
        ELSE [kind |-> "sqrt(a)*sqrt(252)", a |-> v, b |-> Number(0),
              c |-> Number(0)]

\* lines 226-231: risk_free_rate / 252 with risk_free_rate = 0.02 is
\* 1 / 12600; the guard is returns.std() != 0 on the float
sharpe_ratio(returns) ==
    LET excess_returns == AddScalar(returns, Frac(-1, 12600))
        m == mean(excess_returns)
        v == var(returns)
    IN  IF std(returns) # Exact(Number(0))
        THEN IF IsNaN(m) \/ IsNaN(v) THEN Exact(NaN)
             ELSE IF m = Number(0) THEN Exact(m)
             ELSE IF v = Number(0)
             THEN [kind |-> "sqrt(252)*a/sqrt(var of the residue of mean b)",
                   a |-> m, b |-> mean(returns), c |-> Number(0)]
             ELSE [kind |-> "sqrt(252)*a/sqrt(b)", a |-> m, b |-> v,
                   c |-> Number(0)]
        ELSE Exact(Number(0))

\* lines 234-237
max_drawdown(returns) ==
    LET cum_returns == cumprod(AddScalar(returns, Number(1)))
        rolling_max == expanding_max(cum_returns)
        drawdowns == [d \in DOMAIN returns |->
                        Add(Div(cum_returns[d], rolling_max[d]), Number(-1))]
    IN  min(drawdowns)

\* (annualized_return - risk_free_rate)
\*     - beta * ((1 + benchmark_returns.mean()) ** 252 - 1 - risk_free_rate)
alpha(m, beta, bm) ==
    IF IsNaN(m) \/ IsNaN(beta) \/ IsNaN(bm) THEN Exact(NaN)
    ELSE [kind |-> "((1+a)**252-1-0.02)-b*((1+c)**252-1-0.02)",
          a |-> m, b |-> beta, c |-> bm]

\* lines 245-247 for a benchmark whose float variance is the square of a
\* residue: the covariance, itself a sum over the residues, over it
ResidueBetaAlpha(returns, benchmark_series) ==
    IF IsNaN(cov(returns, benchmark_series)) \/ IsNaN(mean(returns))
    THEN [beta |-> Exact(NaN), alpha |-> Exact(NaN)]
    ELSE [beta |-> [kind |-> "cov(a, residue of mean c)/var of the residue",
                    a |-> mean(returns), b |-> Number(0),
                    c |-> mean(benchmark_series)],
          alpha |-> [kind |-> "((1+a)**252-1-0.02)-beta*((1+c)**252-1-0.02)",
                     a |-> mean(returns), b |-> Number(0),
                     c |-> mean(benchmark_series)]]

\* mutant: an empty benchmark is treated as any other
BetaAlpha_IgnoresEmpty(returns, bench) ==
    IF bench # None
    THEN LET covariance == cov(returns, bench[1])
             variance == var(bench[1])
         IN  IF variance # Number(0)
             THEN LET beta == Div(covariance, variance)
                  IN  [beta |-> Exact(beta),
                       alpha |-> alpha(mean(returns), beta, mean(bench[1]))]
             ELSE IF Residue(bench[1])
             THEN ResidueBetaAlpha(returns, bench[1])
             ELSE [beta |-> Exact(Number(1)), alpha |-> Exact(Number(0))]
    ELSE <<>>

\* lines 240-250, `bench` being the argument benchmark_returns (None or a
\* Series in a one-element tuple): the keys beta and alpha, or no key.  The
\* guard is variance != 0 on the float.
BetaAlpha(returns, bench) ==
    IF bench # None /\ DOMAIN bench[1] # {}
    THEN LET covariance == cov(returns, bench[1])
             variance == var(bench[1])
         IN  IF variance # Number(0)
             THEN LET beta == Div(covariance, variance)
                  IN  [beta |-> Exact(beta),
                       alpha |-> alpha(mean(returns), beta,
                                       mean(bench[1]))]
             ELSE IF Residue(bench[1])
             THEN ResidueBetaAlpha(returns, bench[1])
             ELSE [beta |-> Exact(Number(1)), alpha |-> Exact(Number(0))]
    ELSE <<>>

\* mutant: an empty Series is measured like any other
calculate_metrics_NoEmptyCheck(returns, bench) ==
    [annualized_return |-> Annualized(mean(returns)),
     annualized_volatility |-> annualized_volatility(returns),
     sharpe_ratio |-> sharpe_ratio(returns),
     max_drawdown |-> Exact(max_drawdown(returns))]
    @@ BetaAlpha(returns, bench)

\* the returned dict; no statement of the body raises on a Series of floats
calculate_metrics(returns, bench) ==
    IF DOMAIN returns = {} THEN <<>>
    ELSE [annualized_return |-> Annualized(mean(returns)),
          annualized_volatility |-> annualized_volatility(returns),
          sharpe_ratio |-> sharpe_ratio(returns),
          max_drawdown |-> Exact(max_drawdown(returns))]
         @@ BetaAlpha(returns, bench)

----------------------------------------------------------------------------
(* Calls of calculate_metrics *)

\* the returns 0.01, -0.02, 0.03
ScenarioReturns == <<Frac(1, 100), Frac(-1, 50), Frac(3, 100)>>

\* a Series of benchmark returns over the dates 1..n, each date without a
\* return (NaN), with a loss or with a gain; the return of 0.1 on three
\* dates, and on eight (from eight rows on the float sum is taken in pairs)
BenchmarkSeries ==
    UNION {[1..n -> {NaN, Frac(-1, 2), Frac(1, 2)}] : n \in 0..MaxReturns}
        \cup {ScenarioReturns, <<Frac(1, 10), Frac(1, 10), Frac(1, 10)>>,
              [k \in 1..8 |-> Frac(1, 10)]}

\* the argument `returns`: the same series but the one of eight rows, and
\* the series with a total loss (-1), a loss beyond the total (-2) or a gain
\* on each date
ReturnSeries ==
    (BenchmarkSeries \ {[k \in 1..8 |-> Frac(1, 10)]})
        \cup UNION {[1..n -> {Number(-2), Number(-1), Frac(1, 2)}] :
                        n \in 1..MaxReturns}

\* a call calculate_metrics(r, b)
MetricsCall ==
    /\ pc = "idle"
    /\ \E r \in ReturnSeries :
        \E b \in {None} \cup {Some(x) : x \in BenchmarkSeries} :
            /\ metrics_returns' = r
            /\ metrics_benchmark' = b
            /\ performance_metrics' = calculate_metrics(r, b)
    /\ pc' = "metrics_done"
    /\ UNCHANGED <<filterVars, seriesVars, portfolioVars, session_state>>

NextMetrics == MetricsCall

SpecMetrics == Init /\ [][NextMetrics]_vars

----------------------------------------------------------------------------
(* Properties of the metrics *)

\* the defined values of a series
ValuesOf(series) == {series[d] : d \in Defined(series)}

\* a standard deviation (a variance) of zero: at least two defined values,
\* all of them equal
ZeroSpread(series) ==
    Cardinality(Defined(series)) >= 2 /\ Cardinality(ValuesOf(series)) = 1

\* C12: for a non-empty return series whose standard deviation is zero,
\* calculate_metrics returns sharpe_ratio exactly 0, a defined number.
C12_SharpeZero ==
    (pc = "metrics_done" /\ DOMAIN metrics_returns # {}
        /\ ZeroSpread(metrics_returns)) =>
            /\ "sharpe_ratio" \in DOMAIN performance_metrics
            /\ performance_metrics.sharpe_ratio = Exact(Number(0))

\* C13: a non-empty return series and a non-empty benchmark series whose
\* variance is zero give beta exactly 1 and alpha exactly 0.
C13_ZeroVarianceFallback ==
    (pc = "metrics_done" /\ DOMAIN metrics_returns # {}
        /\ metrics_benchmark # None /\ ZeroSpread(metrics_benchmark[1])) =>
            /\ {"beta", "alpha"} \subseteq DOMAIN performance_metrics
            /\ performance_metrics.beta = Exact(Number(1))
            /\ performance_metrics.alpha = Exact(Number(0))

\* a benchmark series was supplied and its variance is not zero
NonzeroVarianceBenchmark ==
    /\ metrics_benchmark # None
    /\ DOMAIN metrics_benchmark[1] # {}
    /\ ~ZeroSpread(metrics_benchmark[1])

\* C14: the returned record has beta and alpha only when a benchmark series
\* was supplied and has nonzero variance; without benchmark, with an empty
\* one and with a zero-variance one it has neither key.
C14_BetaAlphaOnlyNonzeroVariance ==
    pc = "metrics_done" =>
        /\ ("beta" \in DOMAIN performance_metrics) => NonzeroVarianceBenchmark
        /\ ("alpha" \in DOMAIN performance_metrics) => NonzeroVarianceBenchmark

\* C14, amended: the returned record has beta and alpha exactly when the
\* return series is not empty and a non-empty benchmark series was supplied,
\* whatever the variance of that series, zero included; without benchmark
\* and with an empty one it has neither key.
C14_BetaAlphaIffBenchmark ==
    pc = "metrics_done" =>
        LET supplied == /\ DOMAIN metrics_returns # {}
                        /\ metrics_benchmark # None
                        /\ DOMAIN metrics_benchmark[1] # {}
        IN  /\ ("beta" \in DOMAIN performance_metrics) <=> supplied
            /\ ("alpha" \in DOMAIN performance_metrics) <=> supplied

\* the three cases: a zero-variance benchmark carries the keys, ...
C14_Witness ==
    /\ pc = "metrics_done"
    /\ metrics_returns = <<Frac(1, 2), Frac(-1, 2)>>
    /\ metrics_benchmark = Some(<<Frac(1, 2), Frac(1, 2)>>)
    /\ {"beta", "alpha"} \subseteq DOMAIN performance_metrics

\* the cumulative product of 1 + return over the first i rows of a series
\* without undefined row
RECURSIVE CumProd(_, _)
CumProd(series, i) ==
    IF i = 0 THEN Number(1)
    ELSE Mul(CumProd(series, i - 1), Add(Number(1), series[i]))

\* the drawdown at row i: the cumulative product over its greatest value up
\* to and including row i, minus 1
DrawdownAt(series, i) ==
    LET peak == CHOOSE j \in 1..i :
                    \A k \in 1..i : ~Less(CumProd(series, j), CumProd(series, k))
    IN  Sub(Div(CumProd(series, i), CumProd(series, peak)), Number(1))

\* C15: max_drawdown is the least over the rows i of
\* cumProd[i] / max(cumProd[0..i]) - 1, the maximum being the prefix maximum;
\* for the returns 0.01, -0.02, 0.03 the least is at the second row and is
\* 0.9898/1.01 - 1.
C15_MaxDrawdown ==
    (pc = "metrics_done" /\ DOMAIN metrics_returns # {}
        /\ Defined(metrics_returns) = DOMAIN metrics_returns) =>
            LET n == Len(metrics_returns)
                dd == performance_metrics.max_drawdown
            IN  /\ dd.kind = "number"
                /\ \E i \in 1..n : dd.a = DrawdownAt(metrics_returns, i)
                /\ \A i \in 1..n : ~Less(DrawdownAt(metrics_returns, i), dd.a)
                /\ metrics_returns = ScenarioReturns =>
                       /\ dd.a = Sub(Div(Frac(9898, 10000), Frac(101, 100)),
                                     Number(1))
                       /\ dd.a = DrawdownAt(metrics_returns, 2)
                       /\ Less(dd.a, DrawdownAt(metrics_returns, 1))
                       /\ Less(dd.a, DrawdownAt(metrics_returns, 3))

\* the returns 0.01, -0.02, 0.03 and their drawdown of -0.02
C15_Witness ==
    /\ pc = "metrics_done"
    /\ metrics_returns = ScenarioReturns
    /\ performance_metrics.max_drawdown = Exact(Frac(-1, 50))

\* C16: calculate_metrics of an empty return series is the empty record,
\* with or without a benchmark series.
C16_EmptyReturns ==
    (pc = "metrics_done" /\ DOMAIN metrics_returns = {}) =>
        performance_metrics = <<>>

\* an empty return series against a benchmark that has returns
C16_Witness ==
    /\ pc = "metrics_done"
    /\ metrics_returns = <<>>
    /\ metrics_benchmark = Some(<<Frac(1, 2), Frac(-1, 2)>>)
    /\ performance_metrics = <<>>

----------------------------------------------------------------------------
(* calculate_portfolio_metrics, src/data_manager.py:258-347                *)
(*                                                                         *)
(* A dict with ordered keys (the argument `portfolio`) is the sequence of  *)
(* its <<key, value>> items.  The call is followed statement by statement: *)
(* pc is the statement that runs next, `stack` the positions the calls in  *)
(* progress return to.  get_stock_data, get_portfolio_historical_data and  *)
(* get_benchmark_data answer through st.cache_data (ttl 3600): a call      *)
(* finds the entry of its arguments or runs the body, and an entry can     *)
(* expire between any two calls.                                           *)

Keys(dict) == [k \in DOMAIN dict |-> dict[k][1]]

Values(dict) == [k \in DOMAIN dict |-> dict[k][2]]

\* [f[x] for x in seq]
Map(f, seq) ==
    [k \in DOMAIN seq |-> f[seq[k]]]

\* mutant: the filtered list is not carried over to the weights
FilteredPortfolio_KeepsAll(pf, pref, kept) == pf

\* lines 293-297: the local `portfolio` after the filtering step, which
\* left the list `kept`
FilteredPortfolio(pf, pref, kept) ==
    IF pref # ""
    THEN SelectSeq(pf, LAMBDA item :
             \E k \in DOMAIN kept : kept[k].ticker = item[1])
    ELSE pf

\* lines 327-341: the body of the second loop over portfolio.items();
\* Accumulate(dict, key, x) is d[key] = d.get(key, 0) + x
EsgLoopBody(m, record, weight, total) ==
    IF record # None
    THEN LET Accumulate(dict, key, x) ==
                 IF key \in DOMAIN dict
                 THEN [dict EXCEPT ![key] = Add(@, x)]
                 ELSE (key :> x) @@ dict
             weight_normalized == Frac(weight, total)
             scored ==
                 [m EXCEPT
                    !.esg_score =
                        Add(@, Mul(Number(record.esg_score), weight_normalized)),
                    !.environmental_score =
                        Add(@, Mul(Number(record.environmental_score),
                                   weight_normalized)),
                    !.social_score =
                        Add(@, Mul(Number(record.social_score),
                                   weight_normalized)),
                    !.governance_score =
                        Add(@, Mul(Number(record.governance_score),
                                   weight_normalized))]
             sectored ==
                 IF record.sector # "N/A"
                 THEN [scored EXCEPT !.sector_exposure =
                          Accumulate(@, record.sector, weight_normalized)]
                 ELSE scored
         IN  IF record.country # "N/A"
             THEN [sectored EXCEPT !.country_exposure =
                      Accumulate(@, record.country, weight_normalized)]
             ELSE sectored
    ELSE m

----------------------------------------------------------------------------
(* get_stock_data, src/data_manager.py:71-136, and the data source *)

\* the keys of the returned dict that the aggregation reads, but the ticker
Profile(total, env, soc, gov, sector, country) ==
    [esg_score |-> total, environmental_score |-> env, social_score |-> soc,
     governance_score |-> gov, sector |-> sector, country |-> country]

\* the dict of lines 114-130 (the keys the aggregation reads)
AssetRecord(ticker, profile) ==
    StockData(ticker, profile.esg_score, profile.environmental_score,
              profile.social_score, profile.governance_score)
        @@ [sector |-> profile.sector, country |-> profile.country]

\* eligible under every strategy
Leader == Profile(10, 2, 3, 2, "Technology", "United States")

\* no sustainability data: the default scores of line 107, not eligible
\* under "Net Zéro"; info without sector
Unrated == Profile(19, 10, 4, 5, "N/A", "France")

\* what yfinance holds for a ticker: the attributes of yf.Ticker whose
\* request raises, whether history(period="1y") has no row, stock.info (a
\* dict) and the esgScores column of stock.sustainability as a dict ({} for
\* None and for an empty frame).  Quoted(profile) is the ticker that
\* get_stock_data answers `profile` for.
Quoted(profile) ==
    [raises |-> {},
     history_empty |-> FALSE,
     info |-> [key \in {"longName"} \cup
                       {k \in {"sector", "country"} : profile[k] # "N/A"} |->
                  IF key = "longName" THEN "Inc." ELSE profile[key]],
     sustainability |->
         [totalEsg |-> profile.esg_score,
          environmentScore |-> profile.environmental_score,
          socialScore |-> profile.social_score,
          governanceScore |-> profile.governance_score]]

\* the tickers that get_stock_data meets a fault of: one without price
\* row, one whose history request raises, one without sustainability data,
\* one whose sustainability frame has no environmentScore row
Faulty ==
    [NoRows |-> [Quoted(Leader) EXCEPT !.history_empty = TRUE],
     Raising |-> [Quoted(Leader) EXCEPT !.raises = {"history"}],
     NotRated |-> [Quoted(Unrated) EXCEPT !.sustainability = <<>>],
     Malformed |->
         [Quoted(Unrated) EXCEPT !.sustainability = [totalEsg |-> 10]]]

\* lines 76-136, the body of get_stock_data: the returned value, and whether
\* logger.error was called (lines 104 and 135); esg_data is the dict of
\* lines 90-108, with whether line 104 logged an error
get_stock_data(ticker, source) ==
    IF "history" \in source.raises THEN [data |-> None, logged |-> TRUE]
    ELSE IF source.history_empty THEN [data |-> None, logged |-> FALSE]
    ELSE IF "info" \in source.raises THEN [data |-> None, logged |-> TRUE]
    ELSE IF source.info = <<>> THEN [data |-> None, logged |-> FALSE]
    ELSE IF "sustainability" \in source.raises
    THEN [data |-> None, logged |-> TRUE]
    ELSE LET sustainability == source.sustainability
             esg_data ==
                 IF sustainability = <<>>
                 THEN [total |-> 19, env |-> 10, soc |-> 4, gov |-> 5,
                       logged |-> FALSE]
                 ELSE IF {"totalEsg", "environmentScore", "socialScore",
                          "governanceScore"} \subseteq DOMAIN sustainability
                 THEN [total |-> sustainability.totalEsg,
                       env |-> sustainability.environmentScore,
                       soc |-> sustainability.socialScore,
                       gov |-> sustainability.governanceScore,
                       logged |-> FALSE]
                 ELSE [total |-> 19, env |-> 10, soc |-> 4, gov |-> 5,
                       logged |-> TRUE]
         IN  [data |-> AssetRecord(ticker,
                           Profile(esg_data.total, esg_data.env, esg_data.soc,
                                   esg_data.gov,
                                   Get(source.info, "sector", "N/A"),
                                   Get(source.info, "country", "N/A"))),
              logged |-> esg_data.logged]

\* line 71, st.cache_data(ttl=3600): a call is answered from the entry of
\* the ticker while there is a valid one (<<>>: none); otherwise the body
\* runs, asks the data source, and its answer becomes the entry
CachedStockData(entry, ticker, source) ==
    IF entry # <<>>
    THEN [data |-> entry[1], logged |-> FALSE, asked |-> FALSE]
    ELSE get_stock_data(ticker, source) @@ [asked |-> TRUE]

\* line 71, st.cache_data(ttl=3600), for the call get_stock_data(ticker)
\* that comes next: stock_feed[ticker].calls were made before it, .stale
\* are the calls that find the entry of the ticker expired, and .source is
\* what yfinance holds at each call (at the later ones what it holds at the
\* last listed)
StockDataAnswer(ticker) ==
    LET feed == stock_feed[ticker]
        ordinal == feed.calls + 1
    IN  CachedStockData(
            IF ordinal \in feed.stale THEN <<>>
            ELSE Get(stock_cache, ticker, <<>>),
            ticker,
            feed.source[IF ordinal < Len(feed.source) THEN ordinal
                        ELSE Len(feed.source)])

\* what the call leaves: its answer is the entry of the ticker, lines 104
\* and 135 have logged, the data source was asked when the body ran.  The
\* dicts get_stock_data has returned are numbered in the order of the
\* calls: the body builds a new dict (lines 114-130) and st.cache_data
\* answers with a copy of its entry, so a call that returns a dict
\* returns one that no earlier call returned; `listed` tells that the
\* caller appends it to stocks_data (line 286).
StockDataReturned(ticker, answer, listed) ==
    /\ stock_cache' = (ticker :> Some(answer.data)) @@ stock_cache
    /\ stock_feed' = [stock_feed EXCEPT ![ticker].calls = @ + 1]
    /\ error_logged' = (error_logged \/ answer.logged)
    /\ queried' = queried \cup (IF answer.asked THEN {ticker} ELSE {})
    /\ items' =
         IF answer.data = None THEN items
         ELSE [items EXCEPT
                 !.returned = @ + 1,
                 !.stocks_data =
                     IF listed THEN Append(@, items.returned + 1) ELSE @]

\* a price on every date
RiseHistory == [d \in Dates |-> Number(PathPrice("rise", d))]

Fetch(close) == [raises |-> FALSE, close |-> close]

FetchRaises == [raises |-> TRUE, close |-> <<>>]

\* the data source does not change during the calls of get_stock_data for a
\* ticker: three in calculate_portfolio_metrics, one more at line 406 of
\* app.py
Steady(source) == [i \in 1..4 |-> source]

\* what a call meets for one ticker: the entry of the cache (a profile for
\* its record), the calls that find it expired, what yfinance holds at each
\* call, and the answer of stock.history(start, end).  The third has a
\* record without country in the cache and prices from the second date on;
\* the last has its entry expired at every call, yfinance holding something
\* else each time.
Listings ==
    << [entry |-> <<>>, stale |-> {}, source |-> Steady(Faulty.NoRows),
        history |-> Fetch(RiseHistory)],
       [entry |-> <<>>, stale |-> {}, source |-> Steady(Quoted(Leader)),
        history |-> Fetch(RiseHistory)],
       [entry |-> Some(Profile(15, 3, 4, 3, "Energy", "N/A")), stale |-> {},
        source |-> Steady(Faulty.Raising),
        history |->
            Fetch([d \in Dates \ {1} |-> Number(PathPrice("fall", d))])],
       [entry |-> <<>>, stale |-> {}, source |-> Steady(Faulty.NotRated),
        history |-> Fetch(RiseHistory)],
       [entry |-> <<>>, stale |-> {}, source |-> Steady(Quoted(Leader)),
        history |-> Fetch(<<>>)],
       [entry |-> <<>>, stale |-> {}, source |-> Steady(Faulty.NotRated),
        history |-> FetchRaises],
       [entry |-> <<>>, stale |-> {}, source |-> Steady(Faulty.Raising),
        history |-> Fetch(RiseHistory)],
       [entry |-> Some(Leader), stale |-> {3}, source |-> Steady(Faulty.NoRows),
        history |-> Fetch(RiseHistory)],
       [entry |-> Some(Leader), stale |-> {2}, source |-> Steady(Faulty.NoRows),
        history |-> Fetch(RiseHistory)],
       [entry |-> Some(Leader), stale |-> {3}, source |-> Steady(Faulty.NotRated),
        history |-> Fetch(RiseHistory)],
       [entry |-> Some(None), stale |-> {2}, source |-> Steady(Quoted(Leader)),
        history |-> Fetch(RiseHistory)],
       [entry |-> <<>>, stale |-> {}, source |-> Steady(Faulty.Malformed),
        history |-> Fetch(RiseHistory)],
       [entry |-> Some(Leader), stale |-> {1, 2, 3},
        source |-> <<Quoted(Leader), Faulty.NoRows, Faulty.NotRated,
                     Quoted(Leader)>>,
        history |-> Fetch(RiseHistory)] >>

\* an entry of st.cache_data for get_stock_data(ticker): none, None, or the
\* record of a profile
CacheEntry(ticker, entry) ==
    IF entry = <<>> \/ entry[1] = None THEN entry
    ELSE Some(AssetRecord(ticker, entry[1]))

\* the weights {A: 50, B: 50}
ScenarioPortfolio == <<<<"A", 50>>, <<"B", 50>>>>

\* the argument `portfolio`: up to MaxTickers tickers with their weights
Portfolios ==
    { [k \in 1..n |-> <<TickerNames[k], w[k]>>] :
        n \in 0..MaxTickers, w \in [1..MaxTickers -> Weights] }
        \cup {ScenarioPortfolio}

\* the argument `sustainability_preference`: None (""), the three keys of
\* config.py, and a name that is not a key (line 65 applies)
Strategies ==
    {"", "Net Zéro", "Multi-thématique ESG", "Solidaire", "Net Zero"}

\* the calls of calculate_portfolio_metrics explored, each with the
\* listing of every ticker of its portfolio (an index of Listings) and the
\* answer of the history of its benchmark, all under every strategy: every
\* portfolio with an empty cache; three portfolios with every listing, the
\* cached and expiring ones included; every portfolio with a benchmark
\* whose history is answered or raises
Requests ==
    LET Call(pf, pref, bench, listing) ==
            [portfolio |-> pf, sustainability_preference |-> pref,
             benchmark |-> bench.name, history |-> bench.history,
             listing |-> listing]
        Listed(pf, choice) == [{pf[k][1] : k \in DOMAIN pf} -> choice]
        NoBenchmark == [name |-> "", history |-> Fetch(<<>>)]
        Benchmarks == {[name |-> "^GSPC", history |-> Fetch(RiseHistory)],
                       [name |-> "^GSPC", history |-> FetchRaises]}
    IN  UNION {{Call(pf, pref, NoBenchmark, listing) :
                    pref \in Strategies,
                    listing \in Listed(pf, {1, 2, 4, 5, 6})} :
               pf \in Portfolios}
        \cup
        UNION {{Call(pf, pref, NoBenchmark, listing) :
                    pref \in Strategies,
                    listing \in Listed(pf, DOMAIN Listings)} :
               pf \in {ScenarioPortfolio, <<<<"A", 1>>, <<"B", 1>>>>,
                       <<<<"A", 1>>>>}}
        \cup
        UNION {{Call(pf, pref, bench, listing) :
                    pref \in Strategies, bench \in Benchmarks,
                    listing \in Listed(pf, {1, 2, 6})} :
               pf \in Portfolios}

\* the caller chooses the arguments of calculate_portfolio_metrics:
\* `sustainability_preference` and `benchmark` are "" for None, the dates
\* are not given; the cache and the data source hold a listing for each
\* ticker of the portfolio, and no series is cached
PortfolioRequest ==
    /\ pc = "idle"
    /\ pc' = "portfolio_called"
    /\ stack' = <<"portfolio_done">>
    /\ \E request \in Requests :
        /\ portfolio' = request.portfolio
        /\ objects' = Build(NoObjects, "portfolio")
        /\ sustainability_preference' = request.sustainability_preference
        /\ benchmark' = request.benchmark
        /\ stock_cache' =
             [t \in DOMAIN request.listing |->
                 CacheEntry(t, Listings[request.listing[t]].entry)]
        /\ stock_feed' =
             [t \in DOMAIN request.listing |->
                 [stale |-> Listings[request.listing[t]].stale,
                  source |-> Listings[request.listing[t]].source,
                  calls |-> 0]]
        /\ price_history' =
             [t \in DOMAIN request.listing |->
                 Listings[request.listing[t]].history]
             @@ (IF request.benchmark # ""
                 THEN (request.benchmark :> request.history)
                 ELSE <<>>)
    /\ UNCHANGED <<filterVars, metricsVars, tickers, weights, loop_index,
                   hist, locals, normalized_weights, portfolio_returns,
                   portfolio_value, benchmark_returns, benchmark_values,
                   error_logged, stock_data, working_portfolio, queried,
                   later_data, metrics, item_index, stocks_data,
                   valid_weights, data, items, history_cache, history_feed,
                   period, exception, all_stocks, widgets, run_session,
                   runs, session_state>>

\* a call get_stock_data(ticker) of its own, the first or a later one
StockDataCall ==
    /\ pc \in {"idle", "stock_done"}
    /\ pc' = "stock_done"
    /\ \E ticker \in {TickerNames[1]}, stale \in BOOLEAN,
          source \in {Faulty.NoRows, Faulty.Raising, Faulty.Malformed, Quoted(Leader)} :
        \E answer \in {CachedStockData(
                           IF stale THEN <<>>
                           ELSE Get(stock_cache, ticker, <<>>),
                           ticker, source)} :
            /\ stock_feed' =
                 (ticker :> [stale |-> IF stale THEN {1} ELSE {},
                             source |-> Steady(source), calls |-> 1])
            /\ stock_data' = (ticker :> answer.data)
            /\ stock_cache' = (ticker :> Some(answer.data))
            /\ error_logged' = answer.logged
            /\ queried' = IF answer.asked THEN {ticker} ELSE {}
    /\ UNCHANGED <<filterVars, metricsVars, tickers, weights, loop_index,
                   hist, locals, normalized_weights, portfolio_returns,
                   portfolio_value, benchmark, benchmark_returns,
                   benchmark_values, portfolio, sustainability_preference,
                   price_history, working_portfolio, later_data, objects,
                   metrics, item_index, stocks_data, valid_weights, data,
                   items, history_cache, history_feed, period, exception,
                   stack, all_stocks, widgets, run_session, runs,
                   session_state>>

\* lines 266-275: the dict display of `metrics` and the three inside it
MetricsDisplay ==
    <<"sector_exposure", "country_exposure", "performance_metrics", "metrics">>

\* a `return`: the caller goes on at the position it left
Returns ==
    /\ pc' = Head(stack)
    /\ stack' = Tail(stack)

\* mutant: without the guard of line 277 the call goes on to its benchmark
PortfolioMetricsEmpty_NoGuard ==
    /\ pc = "portfolio_called"
    /\ portfolio = <<>>
    /\ Returns
    /\ metrics' = EmptyMetrics
    /\ queried' = IF benchmark # "" THEN {benchmark} ELSE {}
    /\ objects' = BuildAll(objects, MetricsDisplay)
    /\ UNCHANGED <<filterVars, metricsVars, tickers, weights, loop_index,
                   hist, locals, normalized_weights, portfolio_returns,
                   portfolio_value, benchmark, benchmark_returns,
                   benchmark_values, error_logged, portfolio,
                   sustainability_preference, stock_data, price_history,
                   working_portfolio, stock_cache, stock_feed, later_data,
                   item_index, stocks_data, valid_weights, data, items,
                   history_cache, history_feed, period, exception,
                   all_stocks, widgets, run_session, runs, session_state>>

\* lines 266-278: an empty portfolio returns `metrics` before any call
PortfolioMetricsEmpty ==
    /\ pc = "portfolio_called"
    /\ portfolio = <<>>
    /\ Returns
    /\ metrics' = EmptyMetrics
    /\ objects' = BuildAll(objects, MetricsDisplay)
    /\ UNCHANGED <<filterVars, metricsVars, tickers, weights, loop_index,
                   hist, locals, normalized_weights, portfolio_returns,
                   portfolio_value, benchmark, benchmark_returns,
                   benchmark_values, error_logged, portfolio,
                   sustainability_preference, stock_data, price_history,
                   working_portfolio, queried, stock_cache, stock_feed,
                   later_data, item_index, stocks_data, valid_weights, data,
                   items, history_cache, history_feed, period, exception,
                   all_stocks, widgets, run_session, runs, session_state>>

\* lines 266-282 for a portfolio with items: `metrics`, the empty list
\* stocks_data, and the loop of line 283 at its first item; the frame of
\* the call holds nothing of an earlier call
PortfolioMetricsEnter ==
    /\ pc = "portfolio_called"
    /\ portfolio # <<>>
    /\ pc' = "stocks_loop"
    /\ metrics' = EmptyMetrics
    /\ objects' = BuildAll(objects, MetricsDisplay \o <<"stocks_data">>)
    /\ working_portfolio' = portfolio
    /\ item_index' = 1
    /\ stocks_data' = <<>>
    /\ valid_weights' = <<>>
    /\ data' = None
    /\ items' = [items EXCEPT !.stocks_data = <<>>, !.filtered_stocks = <<>>]
    /\ stock_data' = <<>>
    /\ later_data' = <<>>
    /\ tickers' = <<>>
    /\ weights' = <<>>
    /\ loop_index' = 1
    /\ hist' = <<>>
    /\ locals' = EmptyLocals
    /\ normalized_weights' = <<>>
    /\ portfolio_returns' = <<>>
    /\ portfolio_value' = <<>>
    /\ benchmark_returns' = <<>>
    /\ benchmark_values' = <<>>
    /\ metrics_returns' = <<>>
    /\ metrics_benchmark' = None
    /\ performance_metrics' = <<>>
    /\ UNCHANGED <<filterVars, benchmark, error_logged, portfolio,
                   sustainability_preference, price_history, queried,
                   stock_cache, stock_feed, history_cache, history_feed,
                   period, exception, stack, all_stocks, widgets,
                   run_session, runs, session_state>>

\* lines 283-286, one turn of the loop: get_stock_data(ticker), and the
\* dict it returns is appended to stocks_data
StocksLoop ==
    /\ pc = "stocks_loop"
    /\ item_index <= Len(working_portfolio)
    /\ item_index' = item_index + 1
    /\ \E ticker \in {working_portfolio[item_index][1]} :
        \E answer \in {StockDataAnswer(ticker)} :
            /\ StockDataReturned(ticker, answer, TRUE)
            /\ stock_data' = (ticker :> answer.data) @@ stock_data
            /\ stocks_data' =
                 IF answer.data # None THEN Append(stocks_data, answer.data)
                 ELSE stocks_data
    /\ UNCHANGED <<filterVars, metricsVars, pc, tickers, weights,
                   loop_index, hist, locals, normalized_weights,
                   portfolio_returns, portfolio_value, benchmark,
                   benchmark_returns, benchmark_values, portfolio,
                   sustainability_preference, price_history,
                   working_portfolio, later_data, objects, metrics,
                   valid_weights, data, history_cache, history_feed, period,
                   exception, stack, all_stocks, widgets, run_session, runs,
                   session_state>>

\* lines 293-297: `portfolio = filtered_portfolio` binds the local name to
\* the new dict; the mapping the caller passed keeps its items
CallerPortfolio(pf, filtered_portfolio) == pf

\* lines 288-299 after the loop: with a strategy the list is filtered, the
\* local `portfolio` is bound to the dict of the tickers kept, and the
\* dict the caller passed is left as it is.  The list the filter returns
\* holds dicts of its argument: lines 42, 51, 60 and 67 append the dict
\* they read from it, not a copy.
FilterPortfolio ==
    /\ pc = "stocks_loop"
    /\ item_index > Len(working_portfolio)
    /\ pc' = "series_call"
    /\ IF sustainability_preference # ""
       THEN \E kept \in {filter_stocks_by_preference(
                             stocks_data, sustainability_preference)} :
              \E filtered_portfolio \in
                     {FilteredPortfolio(working_portfolio,
                                        sustainability_preference, kept)} :
                /\ stocks' = stocks_data
                /\ preference' = sustainability_preference
                /\ filtered_stocks' = kept
                /\ working_portfolio' = filtered_portfolio
                /\ portfolio' = CallerPortfolio(portfolio, filtered_portfolio)
                /\ items' =
                     [items EXCEPT !.filtered_stocks =
                         Pick(items.stocks_data,
                              {i \in DOMAIN stocks_data :
                                  filter_stocks_by_preference(
                                      <<stocks_data[i]>>,
                                      sustainability_preference) # <<>>})]
                /\ objects' = BuildAll(objects, <<"filtered_stocks",
                                                  "filtered_portfolio">>)
       ELSE UNCHANGED <<stocks, preference, filtered_stocks,
                        working_portfolio, portfolio, items, objects>>
    /\ UNCHANGED <<metricsVars, refiltered_stocks, tickers, weights,
                   loop_index, hist, locals, normalized_weights,
                   portfolio_returns, portfolio_value, benchmark,
                   benchmark_returns, benchmark_values, error_logged,
                   sustainability_preference, stock_data, price_history,
                   queried, stock_cache, stock_feed, later_data, metrics,
                   item_index, stocks_data, valid_weights, data,
                   history_cache, history_feed, period, exception, stack,
                   all_stocks, widgets, run_session, runs, session_state>>

\* lines 138 and 184, st.cache_data(ttl=3600): the key of the entry of a
\* call of get_portfolio_historical_data or get_benchmark_data is the
\* function and the values of its arguments ("" for a date not given)
HistoryKey(function, tkrs, wts, start_date, end_date) ==
    <<function, tkrs, wts, start_date, end_date>>

\* get_portfolio_historical_data(tkrs, wts, start_date, end_date) called at
\* `line`: st.cache_data answers with the pair of its entry, unless there
\* is none or the call finds it expired (history_feed); then the body runs
\* and the caller waits for it at `resume`
SeriesThroughCache(line, tkrs, wts, resume) ==
    LET key == HistoryKey("get_portfolio_historical_data", tkrs, wts,
                          period[1], period[2])
    IN  IF key \in DOMAIN history_cache /\ line \notin history_feed
        THEN /\ pc' = resume
             /\ portfolio_value' = history_cache[key].portfolio_value
             /\ portfolio_returns' = history_cache[key].portfolio_returns
             /\ UNCHANGED <<stack, tickers, weights, loop_index, locals,
                            normalized_weights>>
        ELSE /\ pc' = "series_body"
             /\ stack' = <<resume>> \o stack
             /\ tickers' = tkrs
             /\ weights' = wts
             /\ loop_index' = 1
             /\ locals' = EmptyLocals
             /\ normalized_weights' = <<>>
             /\ UNCHANGED <<portfolio_value, portfolio_returns>>

\* line 300: the series of the local `portfolio`
SeriesCall ==
    /\ pc = "series_call"
    /\ SeriesThroughCache(300, Keys(working_portfolio),
                          Values(working_portfolio), "benchmark_call")
    /\ UNCHANGED <<filterVars, metricsVars, hist, benchmark,
                   benchmark_returns, benchmark_values, error_logged,
                   portfolio, sustainability_preference, stock_data,
                   price_history, working_portfolio, queried, stock_cache,
                   stock_feed, later_data, objects, metrics, item_index,
                   stocks_data, valid_weights, data, items, history_cache,
                   history_feed, period, exception, all_stocks, widgets,
                   run_session, runs, session_state>>

\* get_portfolio_historical_data returns a pair: st.cache_data stores it
\* under the arguments of the call
SeriesReturns(value, returns) ==
    /\ portfolio_value' = value
    /\ portfolio_returns' = returns
    /\ history_cache' =
         (HistoryKey("get_portfolio_historical_data", tickers, weights,
                     period[1], period[2])
              :> [portfolio_value |-> value, portfolio_returns |-> returns])
         @@ history_cache
    /\ Returns

\* lines 153-161 of get_portfolio_historical_data, one turn of the loop
SeriesFetch ==
    \* lines 151-161, one turn of the loop: the request of the history of a
    \* ticker is answered
    \/ /\ pc = "series_body"
       /\ loop_index <= Len(tickers)
       /\ ~price_history[tickers[loop_index]].raises
       /\ \E ticker \in {tickers[loop_index]} :
           /\ queried' = queried \cup {ticker}
           /\ hist' = (ticker :> price_history[ticker].close) @@ hist
           /\ locals' = HistLoopBody(locals, ticker, weights[loop_index],
                                     price_history[ticker].close)
       /\ loop_index' = loop_index + 1
       /\ UNCHANGED <<filterVars, metricsVars, pc, tickers, weights,
                      normalized_weights, portfolio_returns, portfolio_value,
                      benchmark, benchmark_returns, benchmark_values,
                      error_logged, portfolio, sustainability_preference,
                      stock_data, price_history, working_portfolio,
                      stock_cache, stock_feed, later_data, objects, metrics,
                      item_index, stocks_data, valid_weights, data, items,
                      history_cache, history_feed, period, exception, stack,
                      all_stocks, widgets, run_session, runs, session_state>>
    \* lines 151-153 and 180-182: the request of the history of a ticker
    \* raises; the function logs and returns the empty pair
    \/ /\ pc = "series_body"
       /\ loop_index <= Len(tickers)
       /\ price_history[tickers[loop_index]].raises
       /\ queried' = queried \cup {tickers[loop_index]}
       /\ error_logged' = TRUE
       /\ SeriesReturns(<<>>, <<>>)
       /\ UNCHANGED <<filterVars, metricsVars, tickers, weights, loop_index,
                      hist, locals, normalized_weights, benchmark,
                      benchmark_returns, benchmark_values, portfolio,
                      sustainability_preference, stock_data, price_history,
                      working_portfolio, stock_cache, stock_feed, later_data,
                      objects, metrics, item_index, stocks_data, valid_weights,
                      data, items, history_feed, period, exception, all_stocks,
                      widgets, run_session, runs, session_state>>

\* lines 145-146 and 163-182: the rest of the function after the loop, for
\* no ticker the return of line 146
SeriesResult ==
    /\ pc = "series_body"
    /\ loop_index > Len(tickers)
    /\ \E result \in {HistResult(locals)} :
        /\ error_logged' = (error_logged \/ result.raised)
        /\ normalized_weights' = result.normalized_weights
        /\ SeriesReturns(result.portfolio_value, result.portfolio_returns)
    /\ UNCHANGED <<filterVars, metricsVars, tickers, weights, loop_index,
                   hist, locals, benchmark, benchmark_returns,
                   benchmark_values, portfolio, sustainability_preference,
                   stock_data, price_history, working_portfolio, queried,
                   stock_cache, stock_feed, later_data, objects, metrics,
                   item_index, stocks_data, valid_weights, data, items,
                   history_feed, period, exception, all_stocks, widgets,
                   run_session, runs, session_state>>

\* get_benchmark_data(name, start_date, end_date) called at `line`, whole:
\* st.cache_data answers with the pair of its entry, unless there is none
\* or the call finds it expired; then the body asks for the history of the
\* benchmark (lines 193-206) and its pair becomes the entry
BenchmarkThroughCache(line, name, resume) ==
    LET key == HistoryKey("get_benchmark_data", <<name>>, <<>>,
                          period[1], period[2])
    IN  /\ pc' = resume
        /\ IF key \in DOMAIN history_cache /\ line \notin history_feed
           THEN /\ benchmark_values' = history_cache[key].normalized
                /\ benchmark_returns' = history_cache[key].returns
                /\ UNCHANGED <<history_cache, hist, queried, error_logged>>
           ELSE \E result \in {IF price_history[name].raises
                               THEN [normalized |-> <<>>, returns |-> <<>>]
                               ELSE BenchmarkResult(
                                        price_history[name].close)} :
                  /\ queried' = queried \cup {name}
                  /\ error_logged' =
                       (error_logged \/ price_history[name].raises)
                  /\ hist' = IF price_history[name].raises THEN hist
                             ELSE (name :> price_history[name].close) @@ hist
                  /\ benchmark_values' = result.normalized
                  /\ benchmark_returns' = result.returns
                  /\ history_cache' = (key :> result) @@ history_cache

\* lines 308-310: the series of the benchmark, when one is given
BenchmarkOfPortfolio ==
    \* lines 308-310 with a benchmark: its series
    \/ /\ pc = "benchmark_call"
       /\ benchmark # ""
       /\ BenchmarkThroughCache(310, benchmark, "measuring")
       /\ UNCHANGED <<filterVars, metricsVars, tickers, weights, loop_index,
                      locals, normalized_weights, portfolio_returns,
                      portfolio_value, benchmark, portfolio,
                      sustainability_preference, stock_data, price_history,
                      working_portfolio, stock_cache, stock_feed, later_data,
                      objects, metrics, item_index, stocks_data, valid_weights,
                      data, items, history_feed, period, exception, stack,
                      all_stocks, widgets, run_session, runs, session_state>>
    \* line 308 without benchmark: benchmark_returns is None
    \/ /\ pc = "benchmark_call"
       /\ benchmark = ""
       /\ pc' = "measuring"
       /\ UNCHANGED <<filterVars, metricsVars, tickers, weights, loop_index,
                      hist, locals, normalized_weights, portfolio_returns,
                      portfolio_value, benchmark, benchmark_returns,
                      benchmark_values, error_logged, portfolio,
                      sustainability_preference, stock_data, price_history,
                      working_portfolio, queried, stock_cache, stock_feed,
                      later_data, objects, metrics, item_index, stocks_data,
                      valid_weights, data, items, history_cache, history_feed,
                      period, exception, stack, all_stocks, widgets,
                      run_session, runs, session_state>>

\* lines 313-316: calculate_metrics on a portfolio series that is not
\* empty, then the loop of line 318 at its first item
MeasurePerformance ==
    /\ pc = "measuring"
    /\ pc' = "weights_loop"
    /\ item_index' = 1
    /\ IF DOMAIN portfolio_returns # {}
       THEN \E given \in {IF benchmark = "" THEN None
                          ELSE Some(benchmark_returns)} :
              \E measured \in {calculate_metrics(portfolio_returns, given)} :
                /\ metrics_returns' = portfolio_returns
                /\ metrics_benchmark' = given
                /\ performance_metrics' = measured
                /\ metrics' = [metrics EXCEPT !.performance_metrics = measured]
                /\ objects' = Build(objects, "performance_metrics")
       ELSE UNCHANGED <<metrics_returns, metrics_benchmark,
                        performance_metrics, metrics, objects>>
    /\ UNCHANGED <<filterVars, tickers, weights, loop_index, hist, locals,
                   normalized_weights, portfolio_returns, portfolio_value,
                   benchmark, benchmark_returns, benchmark_values,
                   error_logged, portfolio, sustainability_preference,
                   stock_data, price_history, working_portfolio, queried,
                   stock_cache, stock_feed, later_data, stocks_data,
                   valid_weights, data, items, history_cache, history_feed,
                   period, exception, stack, all_stocks, widgets,
                   run_session, runs, session_state>>

\* lines 318-321, one turn of the loop: get_stock_data(ticker), and the
\* weight of a ticker with a record is appended to valid_weights
WeightsLoop ==
    /\ pc = "weights_loop"
    /\ item_index <= Len(working_portfolio)
    /\ item_index' = item_index + 1
    /\ \E ticker \in {working_portfolio[item_index][1]} :
        \E answer \in {StockDataAnswer(ticker)} :
            /\ StockDataReturned(ticker, answer, FALSE)
            /\ later_data' = (ticker :> <<answer.data, None>>) @@ later_data
            /\ valid_weights' =
                 IF answer.data # None
                 THEN Append(valid_weights,
                             working_portfolio[item_index][2])
                 ELSE valid_weights
    /\ UNCHANGED <<filterVars, metricsVars, pc, tickers, weights,
                   loop_index, hist, locals, normalized_weights,
                   portfolio_returns, portfolio_value, benchmark,
                   benchmark_returns, benchmark_values, portfolio,
                   sustainability_preference, stock_data, price_history,
                   working_portfolio, objects, metrics, stocks_data, data,
                   history_cache, history_feed, period, exception, stack,
                   all_stocks, widgets, run_session, runs, session_state>>

\* line 323 after the loop of line 318
WeightsCounted ==
    \* lines 323-326 with a valid weight: the loop of line 326 at its first item
    \/ /\ pc = "weights_loop"
       /\ item_index > Len(working_portfolio)
       /\ valid_weights # <<>>
       /\ pc' = "esg_call"
       /\ item_index' = 1
       /\ UNCHANGED <<filterVars, metricsVars, tickers, weights, loop_index,
                      hist, locals, normalized_weights, portfolio_returns,
                      portfolio_value, benchmark, benchmark_returns,
                      benchmark_values, error_logged, portfolio,
                      sustainability_preference, stock_data, price_history,
                      working_portfolio, queried, stock_cache, stock_feed,
                      later_data, objects, metrics, stocks_data, valid_weights,
                      data, items, history_cache, history_feed, period,
                      exception, stack, all_stocks, widgets, run_session, runs,
                      session_state>>
    \* lines 323 and 343 without valid weight: `metrics` is returned as it is
    \/ /\ pc = "weights_loop"
       /\ item_index > Len(working_portfolio)
       /\ valid_weights = <<>>
       /\ Returns
       /\ UNCHANGED <<filterVars, metricsVars, tickers, weights, loop_index,
                      hist, locals, normalized_weights, portfolio_returns,
                      portfolio_value, benchmark, benchmark_returns,
                      benchmark_values, error_logged, portfolio,
                      sustainability_preference, stock_data, price_history,
                      working_portfolio, queried, stock_cache, stock_feed,
                      later_data, objects, metrics, item_index, stocks_data,
                      valid_weights, data, items, history_cache, history_feed,
                      period, exception, all_stocks, widgets, run_session,
                      runs, session_state>>

\* lines 326-327, one turn of the loop: data = get_stock_data(ticker)
EsgCall ==
    /\ pc = "esg_call"
    /\ item_index <= Len(working_portfolio)
    /\ pc' = "esg_add"
    /\ \E ticker \in {working_portfolio[item_index][1]} :
        \E answer \in {StockDataAnswer(ticker)} :
            /\ StockDataReturned(ticker, answer, FALSE)
            /\ data' = answer.data
            /\ later_data' =
                 [later_data EXCEPT ![ticker] = <<@[1], answer.data>>]
    /\ UNCHANGED <<filterVars, metricsVars, tickers, weights, loop_index,
                   hist, locals, normalized_weights, portfolio_returns,
                   portfolio_value, benchmark, benchmark_returns,
                   benchmark_values, portfolio, sustainability_preference,
                   stock_data, price_history, working_portfolio, objects,
                   metrics, item_index, stocks_data, valid_weights,
                   history_cache, history_feed, period, exception, stack,
                   all_stocks, widgets, run_session, runs, session_state>>

\* the exceptions Streamlit raises in the script thread when the run is to
\* stop or to start again (a widget was used, st.stop or st.rerun): they
\* derive from BaseException
ScriptControl == {"RerunException", "StopException"}

\* mutant: `except ValueError` in place of line 345
Handled_OnlyValueError(error) == error = "ValueError"

\* line 345: `except Exception` handles the classes that derive from
\* Exception, ZeroDivisionError among them, and not those that derive from
\* BaseException only: the interpreter's and the two of ScriptControl
Handled(error) ==
    error \notin {"KeyboardInterrupt", "SystemExit", "GeneratorExit"}
                     \cup ScriptControl

\* an exception raised inside the try block of lines 280-343: line 345
\* handles it, logs (346) and `metrics` is returned as it is (347), or it
\* leaves the function: its frame is given up, with its locals and what
\* the calls inside it returned, and nothing is returned
Raised(error) ==
    IF Handled(error)
    THEN /\ error_logged' = TRUE
         /\ Returns
         /\ UNCHANGED <<exception, metrics, working_portfolio, stock_data,
                        later_data, stocks, preference, filtered_stocks,
                        items, objects, tickers, weights, loop_index, hist,
                        locals, normalized_weights, item_index, stocks_data,
                        valid_weights, data, portfolio_returns,
                        portfolio_value, benchmark_returns, benchmark_values,
                        metrics_returns, metrics_benchmark,
                        performance_metrics>>
    ELSE /\ exception' = error
         /\ pc' = "portfolio_raised"
         /\ stack' = <<>>
         /\ metrics' = <<>>
         /\ working_portfolio' = <<>>
         /\ stock_data' = <<>>
         /\ later_data' = <<>>
         /\ stocks' = <<>>
         /\ preference' = ""
         /\ filtered_stocks' = <<>>
         /\ items' = [items EXCEPT !.stocks_data = <<>>, !.filtered_stocks = <<>>]
         /\ objects' = [n \in ObjectNames |->
                           IF n = "portfolio" THEN objects[n] ELSE 0]
         /\ tickers' = <<>>
         /\ weights' = <<>>
         /\ loop_index' = 1
         /\ hist' = <<>>
         /\ locals' = EmptyLocals
         /\ normalized_weights' = <<>>
         /\ item_index' = 1
         /\ stocks_data' = <<>>
         /\ valid_weights' = <<>>
         /\ data' = None
         /\ portfolio_returns' = <<>>
         /\ portfolio_value' = <<>>
         /\ benchmark_returns' = <<>>
         /\ benchmark_values' = <<>>
         /\ metrics_returns' = <<>>
         /\ metrics_benchmark' = None
         /\ performance_metrics' = <<>>
         /\ UNCHANGED error_logged

\* lines 328-341 for the dict of line 327: its scores and exposures are
\* added with the weight over total_weight (the division of line 329
\* raises when the valid weights sum to zero); None adds nothing.  Then the
\* loop of line 326 is at its next item.
EsgAdd ==
    /\ pc = "esg_add"
    /\ \/ data = None
       \/ total_weight(valid_weights) # 0
    /\ pc' = "esg_call"
    /\ item_index' = item_index + 1
    /\ metrics' = EsgLoopBody(metrics, data,
                              working_portfolio[item_index][2],
                              total_weight(valid_weights))
    /\ UNCHANGED <<filterVars, metricsVars, tickers, weights, loop_index,
                   hist, locals, normalized_weights, portfolio_returns,
                   portfolio_value, benchmark, benchmark_returns,
                   benchmark_values, error_logged, portfolio,
                   sustainability_preference, stock_data, price_history,
                   working_portfolio, queried, stock_cache, stock_feed,
                   later_data, objects, stocks_data, valid_weights, data,
                   items, history_cache, history_feed, period, exception,
                   stack, all_stocks, widgets, run_session, runs,
                   session_state>>

\* line 329 when total_weight is 0: ZeroDivisionError
EsgDivisionRaises ==
    /\ pc = "esg_add"
    /\ data # None
    /\ total_weight(valid_weights) = 0
    /\ Raised("ZeroDivisionError")
    /\ UNCHANGED <<refiltered_stocks, benchmark, portfolio,
                   sustainability_preference, price_history, queried,
                   stock_cache, stock_feed, history_cache, history_feed,
                   period, all_stocks, widgets, run_session, runs,
                   session_state>>

\* line 343 after the last item: `metrics` is returned
PortfolioMetricsReturn ==
    /\ pc = "esg_call"
    /\ item_index > Len(working_portfolio)
    /\ Returns
    /\ UNCHANGED <<filterVars, metricsVars, tickers, weights, loop_index,
                   hist, locals, normalized_weights, portfolio_returns,
                   portfolio_value, benchmark, benchmark_returns,
                   benchmark_values, error_logged, portfolio,
                   sustainability_preference, stock_data, price_history,
                   working_portfolio, queried, stock_cache, stock_feed,
                   later_data, objects, metrics, item_index, stocks_data,
                   valid_weights, data, items, history_cache, history_feed,
                   period, exception, all_stocks, widgets, run_session,
                   runs, session_state>>

\* where the script thread of Streamlit looks for a request to stop or to
\* rerun while calculate_portfolio_metrics runs: at the entry and at the
\* exit of every call of a function under st.cache_data (the spinner of the
\* decorator is an element of the page), that is before and after the
\* calls of lines 284, 300, 310, 319 and 327
CallYields ==
    {"stocks_loop", "series_call", "benchmark_call", "measuring",
     "weights_loop", "esg_call", "esg_add"}

\* a request to stop or to rerun is found while the function runs, its
\* caller being no script of this repository: the exception is raised
\* inside the try block
ScriptControlRaised ==
    /\ pc \in CallYields
    /\ runs = 0
    /\ \E error \in ScriptControl : Raised(error)
    /\ UNCHANGED <<refiltered_stocks, benchmark, portfolio,
                   sustainability_preference, price_history, queried,
                   stock_cache, stock_feed, history_cache, history_feed,
                   period, all_stocks, widgets, run_session, runs,
                   session_state>>

NextPortfolio ==
    \/ PortfolioRequest
    \/ StockDataCall
    \/ PortfolioMetricsEmpty
    \/ PortfolioMetricsEnter
    \/ StocksLoop
    \/ FilterPortfolio
    \/ SeriesCall
    \/ SeriesFetch
    \/ SeriesResult
    \/ BenchmarkOfPortfolio
    \/ MeasurePerformance
    \/ WeightsLoop
    \/ WeightsCounted
    \/ EsgCall
    \/ EsgAdd
    \/ EsgDivisionRaises
    \/ PortfolioMetricsReturn
    \/ ScriptControlRaised

SpecPortfolio == Init /\ [][NextPortfolio]_vars
----------------------------------------------------------------------------
(* Properties of the aggregation *)

\* calculate_portfolio_metrics returned, for a portfolio with a ticker
Aggregated == pc = "portfolio_done" /\ portfolio # <<>>

Resolves(ticker) == stock_data[ticker] # None

\* the positions of `portfolio` in the working weight set: all of them
\* without strategy, with a strategy those whose ticker resolves and passes
\* the eligibility rule
Survivors ==
    {k \in DOMAIN portfolio :
        sustainability_preference # "" =>
            /\ Resolves(portfolio[k][1])
            /\ RuleOf(stock_data[portfolio[k][1]], sustainability_preference)}

\* what get_stock_data answered at a line of the call, by ticker of the
\* working weight set (None where line 327 made no call)
AnsweredAt(line) ==
    [t \in DOMAIN later_data |->
        IF line = 319 THEN later_data[t][1] ELSE later_data[t][2]]

\* the positions of the working weight set whose weight line 321 counts,
\* and those whose scores line 330 adds
Counted == {k \in Survivors : AnsweredAt(319)[portfolio[k][1]] # None}

Added == {k \in Survivors : AnsweredAt(327)[portfolio[k][1]] # None}

\* the positions that enter the ESG aggregation
Entering == {k \in Survivors : Resolves(portfolio[k][1])}

RECURSIVE PortfolioWeightOver(_)
PortfolioWeightOver(K) ==
    IF K = {} THEN 0
    ELSE LET k == MinOf(K) IN portfolio[k][2] + PortfolioWeightOver(K \ {k})

\* sum over the positions K of score x weight
RECURSIVE ScoreWeightOver(_, _)
ScoreWeightOver(key, K) ==
    IF K = {} THEN 0
    ELSE LET k == MinOf(K)
         IN  stock_data[portfolio[k][1]][key] * portfolio[k][2]
                 + ScoreWeightOver(key, K \ {k})

\* sum of score_i x weight_i / (sum of the weights), over the positions K
WeightedScore(key, K) == Frac(ScoreWeightOver(key, K), PortfolioWeightOver(K))

\* the ESG aggregates are the weighted scores of the entering assets
EsgOverEntering ==
    /\ metrics.esg_score = WeightedScore("esg_score", Entering)
    /\ metrics.environmental_score =
           WeightedScore("environmental_score", Entering)
    /\ metrics.social_score = WeightedScore("social_score", Entering)
    /\ metrics.governance_score = WeightedScore("governance_score", Entering)

\* C17: esg_score, environmental_score, social_score and governance_score
\* are each the sum, over the tickers of the working weight set that have an
\* asset record, of score x weight / (sum of the weights of those tickers);
\* weights {A: 50, B: 50} with A total 10, env 2 and B total 15, env 3 give
\* esg_score 12.5 and environmental_score 2.5.
C17_EsgAggregates ==
    (Aggregated /\ Entering # {} /\ PortfolioWeightOver(Entering) # 0) =>
        /\ EsgOverEntering
        /\ (/\ portfolio = ScenarioPortfolio
            /\ stock_data["A"] = StockData("A", 10, 2, 3, 2)
                                     @@ stock_data["A"]
            /\ stock_data["B"] = StockData("B", 15, 3, 4, 3)
                                     @@ stock_data["B"])
           => /\ metrics.esg_score = Frac(25, 2)
              /\ metrics.environmental_score = Frac(5, 2)

\* the sum of the values of a dict of numbers
RECURSIVE SumOfValues(_)
SumOfValues(dict) ==
    IF DOMAIN dict = {} THEN Number(0)
    ELSE LET key == CHOOSE x \in DOMAIN dict : TRUE
         IN  Add(dict[key],
                 SumOfValues([x \in DOMAIN dict \ {key} |-> dict[x]]))

\* an exposure dict over the entering assets, all of them with a known
\* value under `key`: one entry per value, the normalized weights of the
\* assets with that value, and the entries sum to 1
ExposureOverEntering(exposure, key) ==
    LET valueOf(k) == stock_data[portfolio[k][1]][key]
    IN  /\ DOMAIN exposure = {valueOf(k) : k \in Entering}
        /\ \A v \in DOMAIN exposure :
               exposure[v] =
                   Frac(PortfolioWeightOver({k \in Entering : valueOf(k) = v}),
                        PortfolioWeightOver(Entering))
        /\ SumOfValues(exposure) = Number(1)

AllKnown(key) ==
    \A k \in Entering : stock_data[portfolio[k][1]][key] # "N/A"

\* C18: when every asset that enters the ESG aggregation has a known
\* sector, the values of sector_exposure sum to 1 and each is the sum of the
\* normalized weights of the assets of that sector; the same for
\* country_exposure and known countries.
C18_ExposureSumsToOne ==
    (Aggregated /\ Entering # {} /\ PortfolioWeightOver(Entering) # 0) =>
        /\ AllKnown("sector") =>
               ExposureOverEntering(metrics.sector_exposure, "sector")
        /\ AllKnown("country") =>
               ExposureOverEntering(metrics.country_exposure, "country")

\* the items of `portfolio` at the positions K, in order
ItemsAt(K) == Pick(portfolio, K)

\* sum over the positions K of score x weight, the score being the one
\* line 327 was answered
RECURSIVE AddedScoreOver(_, _)
AddedScoreOver(key, K) ==
    IF K = {} THEN 0
    ELSE LET k == MinOf(K)
         IN  AnsweredAt(327)[portfolio[k][1]][key] * portfolio[k][2]
                 + AddedScoreOver(key, K \ {k})

\* the ESG aggregates and the exposures are sums over survivors only: the
\* scores of the survivors line 327 has a record for, over the weight of
\* the survivors line 319 has a record for
OnlySurvivorsAggregated ==
    /\ \A key \in {"esg_score", "environmental_score", "social_score",
                    "governance_score"} :
          metrics[key] =
              Frac(AddedScoreOver(key, Added), PortfolioWeightOver(Counted))
    /\ DOMAIN metrics.sector_exposure \subseteq
           {AnsweredAt(327)[portfolio[k][1]].sector : k \in Added}
    /\ DOMAIN metrics.country_exposure \subseteq
           {AnsweredAt(327)[portfolio[k][1]].country : k \in Added}
    /\ SumOfValues(metrics.sector_exposure) =
           Frac(PortfolioWeightOver(
                    {k \in Added :
                        AnsweredAt(327)[portfolio[k][1]].sector # "N/A"}),
                PortfolioWeightOver(Counted))

\* C19: with a strategy the working weight set is the tickers that resolve
\* and pass the eligibility rule, with their original weights; an excluded
\* ticker is not handed to the series builder and adds nothing to the ESG
\* aggregates or to the sector and country exposures.
C19_StrategyRestricts ==
    (Aggregated /\ sustainability_preference # "") =>
        /\ working_portfolio = ItemsAt(Survivors)
        /\ tickers = Keys(ItemsAt(Survivors))
        /\ weights = Values(ItemsAt(Survivors))
        /\ \A k \in DOMAIN portfolio \ Survivors :
               /\ portfolio[k][1] \notin DOMAIN hist
               /\ portfolio[k][1] \notin DOMAIN locals.returns.cols
        /\ PortfolioWeightOver(Counted) # 0 => OnlySurvivorsAggregated

\* A passes "Net Zéro", B has prices but does not pass
C19_Witness ==
    /\ Aggregated
    /\ sustainability_preference = "Net Zéro"
    /\ portfolio = <<<<"A", 1>>, <<"B", 2>>>>
    /\ stock_data["A"] = AssetRecord("A", Leader)
    /\ stock_data["B"] = AssetRecord("B", Unrated)
    /\ DOMAIN price_history["B"].close # {}
    /\ working_portfolio = <<<<"A", 1>>>>
    /\ normalized_weights = <<Number(1)>>
    /\ metrics.esg_score = Number(10)
    /\ DOMAIN metrics.country_exposure = {"United States"}

\* C20: with or without a strategy, a ticker without asset record is
\* dropped before any later step: it is not handed to the series builder and
\* adds nothing to the portfolio return series or to its weight
\* normalization, even when it has a price history.
C20_UnresolvedDropped ==
    Aggregated =>
        \A k \in DOMAIN portfolio :
            ~Resolves(portfolio[k][1]) =>
                /\ \A j \in DOMAIN tickers : tickers[j] # portfolio[k][1]
                /\ portfolio[k][1] \notin DOMAIN hist
                /\ \A j \in DOMAIN locals.valid_tickers :
                       locals.valid_tickers[j] # portfolio[k][1]

\* C21: calculate_portfolio_metrics of an empty weights mapping returns the
\* record with volatility and the four ESG scores 0 and with empty
\* sector_exposure, country_exposure and performance_metrics; it raises
\* nothing and asks the data source nothing.
C21_EmptyPortfolio ==
    (pc = "portfolio_done" /\ portfolio = <<>>) =>
        /\ metrics.volatility = Number(0)
        /\ metrics.esg_score = Number(0)
        /\ metrics.environmental_score = Number(0)
        /\ metrics.social_score = Number(0)
        /\ metrics.governance_score = Number(0)
        /\ DOMAIN metrics.sector_exposure = {}
        /\ DOMAIN metrics.country_exposure = {}
        /\ DOMAIN metrics.performance_metrics = {}
        /\ ~error_logged
        /\ queried = {}
        /\ DOMAIN hist = {}

\* an empty mapping with a benchmark and a strategy asked for
C21_Witness ==
    /\ pc = "portfolio_done"
    /\ portfolio = <<>>
    /\ benchmark = "^GSPC"
    /\ sustainability_preference = "Net Zéro"
    /\ metrics = EmptyMetrics
    /\ queried = {}

\* the keys of the record calculate_portfolio_metrics returns
MetricsKeys ==
    {"volatility", "esg_score", "environmental_score", "social_score",
     "governance_score", "sector_exposure", "country_exposure",
     "performance_metrics"}

\* the call is over: it returned or an exception left it
PortfolioCallOver == pc \in {"portfolio_done", "portfolio_raised"}

\* valid_weights of lines 317-321 sums to 0: the weights of the tickers of
\* the working set that line 319 has a record for
ZeroValidWeight == PortfolioWeightOver(Counted) = 0

\* the returned record has the eight keys, and with valid weights that sum
\* to zero its four ESG scores are 0 and both exposures are empty
EightKeysReturned ==
    /\ DOMAIN metrics = MetricsKeys
    /\ ZeroValidWeight =>
          /\ metrics.esg_score = Number(0)
          /\ metrics.environmental_score = Number(0)
          /\ metrics.social_score = Number(0)
          /\ metrics.governance_score = Number(0)
          /\ DOMAIN metrics.sector_exposure = {}
          /\ DOMAIN metrics.country_exposure = {}

\* C22: for every weights mapping of non-negative numbers, every strategy
\* and every answer of the data source (no record, no price row, a fetch
\* that raises), calculate_portfolio_metrics raises nothing and returns a
\* record with the eight keys; when the weights of the valid tickers sum to
\* zero the four ESG scores are 0 and both exposures are empty.
C22_NeverRaises ==
    PortfolioCallOver =>
        /\ pc = "portfolio_done"
        /\ EightKeysReturned

\* C22 (amended): for every weights mapping of non-negative numbers, every
\* strategy and every answer of the data source, no exception that derives
\* from Exception leaves calculate_portfolio_metrics, the division by a
\* zero sum of valid weights included: the call returns a record with the
\* eight keys, and when the weights of the valid tickers sum to zero the
\* four ESG scores are 0 and both exposures are empty.  The exceptions by
\* which Streamlit stops or reruns the script derive from BaseException:
\* raised at a call of a cached function, they leave the function.
C22_OnlyScriptControlLeaves ==
    /\ pc = "portfolio_raised" => exception \in ScriptControl
    /\ pc = "portfolio_done" =>
          /\ exception = ""
          /\ EightKeysReturned

\* two tickers with a record and a price history, both of weight 0: the
\* division of line 329 raises and line 345 handles it
C22_Witness ==
    /\ Aggregated
    /\ Len(portfolio) = 2
    /\ \A k \in DOMAIN portfolio :
          /\ portfolio[k][2] = 0
          /\ Resolves(portfolio[k][1])
          /\ DOMAIN price_history[portfolio[k][1]].close # {}
    /\ sustainability_preference = ""
    /\ Entering = DOMAIN portfolio
    /\ error_logged
    /\ metrics.esg_score = Number(0)
    /\ DOMAIN metrics.sector_exposure = {}

\* a ticker without record, one whose fetch raises, a failing benchmark
C22_WitnessFailures ==
    /\ Aggregated
    /\ \E k \in DOMAIN portfolio : ~Resolves(portfolio[k][1])
    /\ \E k \in DOMAIN portfolio : price_history[portfolio[k][1]].raises
    /\ benchmark # "" /\ price_history[benchmark].raises
    /\ DOMAIN metrics = MetricsKeys

\* a request to stop found at the call of line 319, under a strategy that
\* is none of the three keys
C22_WitnessStopped ==
    /\ pc = "portfolio_raised"
    /\ exception = "StopException"
    /\ sustainability_preference = "Net Zero"
    /\ \E t \in DOMAIN stock_feed : stock_feed[t].calls = 2

\* the lists and dicts a call leaves behind, the caller's mapping apart
Results(objs) == {n \in ObjectNames \ {"portfolio"} : objs[n] # 0}

\* one step of a call of calculate_portfolio_metrics, seen from its
\* caller: the mapping passed keeps its identity, tickers and weights; when
\* the step builds the list of the filter, the list given to the filter is
\* the list of line 282, which keeps its length and its records; every
\* list and dict the step builds is a new object, none of them a second
\* name of another
FrameOfStep ==
    /\ portfolio' = portfolio
    /\ objects'["portfolio"] = objects["portfolio"]
    /\ objects'["filtered_stocks"] \notin {0, objects["filtered_stocks"]} =>
          /\ stocks' = stocks_data
          /\ stocks_data' = stocks_data
          /\ items'.stocks_data = items.stocks_data
    /\ \A n \in Results(objects') :
          objects'[n] # objects[n] =>
              /\ objects'[n] \notin Identities(objects)
              /\ \A m \in ObjectNames \ {n} : objects'[m] # objects'[n]

\* no dict of the list the filter returned is a dict that another call
\* returned: those of get_stock_data are numbered 1..its.returned
NoSharedRecords(its) ==
    \A i \in DOMAIN its.filtered_stocks :
        its.filtered_stocks[i] \notin 1..its.returned

RECURSIVE GrowthUpTo(_, _)
GrowthUpTo(series, i) ==
    IF i = 0 THEN Number(1)
    ELSE IF IsNaN(series[i]) THEN GrowthUpTo(series, i - 1)
    ELSE Mul(GrowthUpTo(series, i - 1), Add(Number(1), series[i]))

\* the cumulative product is at every defined row at least what it was at
\* every defined row before
NeverBelowRunningMax(series) ==
    \A i \in Defined(series) :
        \A j \in Defined(series) :
            j <= i => ~Less(GrowthUpTo(series, i), GrowthUpTo(series, j))

\* C24: for every non-empty return series with at least one defined
\* return, the max_drawdown of calculate_metrics is a number less than or
\* equal to 0, and it is 0 exactly when the cumulative product of
\* (1 + return) never falls below its running maximum.
C24_DrawdownNotPositive ==
    (pc = "metrics_done" /\ Defined(metrics_returns) # {}) =>
        LET dd == performance_metrics.max_drawdown
        IN  /\ dd.kind = "number"
            /\ ~IsNaN(dd.a)
            /\ ~Less(Number(0), dd.a)
            /\ dd.a = Number(0) <=> NeverBelowRunningMax(metrics_returns)

\* the first defined return of a series that has one
FirstReturn(series) == series[MinOf(Defined(series))]

\* C24, amended: for every return series whose first defined return is
\* greater than -1 (the running maximum of the cumulative product is then
\* positive), max_drawdown is a number less than or equal to 0, and it is 0
\* exactly when the cumulative product never falls below its running
\* maximum.  When the first defined return is -1, max_drawdown is NaN (the
\* product is 0 over a running maximum of 0).  When it is less than -1,
\* max_drawdown is a number less than or equal to 0 that is 0 when the
\* product never falls below its running maximum, and that can be 0 when it
\* does (a fall below a negative running maximum is a positive drawdown).
C24_DrawdownByFirstReturn ==
    (pc = "metrics_done" /\ Defined(metrics_returns) # {}) =>
        LET dd == performance_metrics.max_drawdown
            first == FirstReturn(metrics_returns)
        IN  /\ dd.kind = "number"
            /\ Less(Number(-1), first) =>
                  /\ ~IsNaN(dd.a)
                  /\ ~Less(Number(0), dd.a)
                  /\ dd.a = Number(0) <=> NeverBelowRunningMax(metrics_returns)
            /\ first = Number(-1) => IsNaN(dd.a)
            /\ Less(first, Number(-1)) =>
                  /\ ~IsNaN(dd.a)
                  /\ ~Less(Number(0), dd.a)
                  /\ NeverBelowRunningMax(metrics_returns) => dd.a = Number(0)

\* a gain, then a loss beyond the total and a gain on the negative product:
\* the product goes 1.5, -1.5, -2.25 under its running maximum of 1.5
C24_Witness ==
    /\ pc = "metrics_done"
    /\ metrics_returns = <<Frac(1, 2), Number(-2), Frac(1, 2)>>
    /\ performance_metrics.max_drawdown = Exact(Frac(-5, 2))
    /\ ~NeverBelowRunningMax(metrics_returns)
    /\ NeverBelowRunningMax(<<NaN, Frac(1, 2), Frac(1, 2)>>)

----------------------------------------------------------------------------
(* The application session, src/app.py.  Streamlit runs the script from    *)
(* the top for every interaction: main() shows the four tabs in turn, the  *)
(* button handlers inside them.  st.session_state and the entries of       *)
(* st.cache_data outlive the run; a run ends at line 413, or where the     *)
(* script thread finds a request to stop or to rerun.                      *)

\* config.py RISK_PROFILES, the keys
RISK_PROFILES == {"Prudent", "Équilibré", "Dynamique"}

\* config.py SUSTAINABILITY_PREFERENCES, the keys
SUSTAINABILITY_PREFERENCES == {"Net Zéro", "Multi-thématique ESG", "Solidaire"}

\* config.py DEFAULT_BENCHMARKS
DEFAULT_BENCHMARKS ==
    ("Prudent" :> "^GSPC") @@ ("Équilibré" :> "URTH")
        @@ ("Dynamique" :> "^IXIC")

\* the script runs explored from the first page load on
MaxRuns == 2

\* what a run meets and what the user leaves in the last tab: for each
\* default ticker the calls of get_stock_data (counted in the run) that
\* find its entry expired and what yfinance holds at each call; the answer
\* of stock.history(start, end) for the tickers and the indices; the calls
\* of the history functions (by line) that find their entry expired; the
\* index picked at line 319 ("": the default of the risk profile) and the
\* dates of lines 303-316.  In the first everything answers; in the second
\* B is eligible under "Multi-thématique ESG" only and its history raises;
\* in the third no entry is valid and yfinance fails at every call; in the
\* fourth B has no sustainability data and the entry of A expires before
\* its third call, when yfinance has no price row.
RunScenes ==
    LET Rise == Fetch(RiseHistory)
        Answering == [t \in {"A", "B", "^GSPC", "URTH", "^IXIC"} |-> Rise]
        Held(stale, source) == [stale |-> stale, source |-> source]
    IN  { [stock |-> [t \in {"A", "B"} |->
                         Held({}, Steady(Quoted(Leader)))],
           history |-> Answering, expired |-> {}, benchmark |-> "",
           period |-> <<"2024-01-01", "2024-12-31">>],
          [stock |-> ("A" :> Held({}, Steady(Quoted(Leader))))
                     @@ ("B" :> Held({}, Steady(Quoted(
                            Profile(20, 5, 6, 7, "Utilities", "Canada"))))),
           history |-> ("B" :> FetchRaises) @@ Answering,
           expired |-> {384}, benchmark |-> "^GSPC",
           period |-> <<"2024-06-01", "2024-12-31">>],
          [stock |-> [t \in {"A", "B"} |->
                         Held(1..9, Steady(Faulty.Raising))],
           history |-> ("URTH" :> FetchRaises) @@ Answering,
           expired |-> {391}, benchmark |-> "",
           period |-> <<"2024-01-01", "2024-12-31">>],
          [stock |-> ("A" :> Held({3}, <<Quoted(Leader), Quoted(Leader),
                                         Faulty.NoRows, Quoted(Leader)>>))
                     @@ ("B" :> Held({}, Steady(Faulty.NotRated))),
           history |-> Answering, expired |-> {300, 310, 384, 391},
           benchmark |-> "", period |-> <<"2024-01-01", "2024-12-31">>] }

\* line 416 and lines 63-83: a script run starts, for a page load or for
\* an interaction of the user.  No button is pressed or "Valider le
\* portefeuille" is, the radios showing the stored profile (lines 95 and
\* 115), or "Mettre à jour le profil" is pressed with any choice of the
\* radios.
AppRerun ==
    /\ pc = "idle"
    /\ runs < MaxRuns
    /\ runs' = runs + 1
    /\ pc' = "profile_tab"
    /\ run_session' = session_state
    /\ \E scene \in RunScenes,
          click \in {[button |-> b,
                      risk_profile |-> session_state.risk_profile,
                      sust_pref |-> session_state.sustainability_preference] :
                         b \in {"", "validate"}}
                    \cup {[button |-> "profile", risk_profile |-> r,
                           sust_pref |-> p] :
                              r \in RISK_PROFILES,
                              p \in SUSTAINABILITY_PREFERENCES} :
        /\ widgets' = click @@ [benchmark |-> scene.benchmark,
                                period |-> scene.period]
        /\ stock_feed' = [t \in DOMAIN scene.stock |->
                             scene.stock[t] @@ [calls |-> 0]]
        /\ price_history' = scene.history
        /\ history_feed' = scene.expired
    /\ UNCHANGED <<filterVars, metricsVars, tickers, weights, loop_index,
                   hist, locals, normalized_weights, portfolio_returns,
                   portfolio_value, benchmark, benchmark_returns,
                   benchmark_values, error_logged, portfolio,
                   sustainability_preference, stock_data, working_portfolio,
                   queried, stock_cache, later_data, objects, metrics,
                   item_index, stocks_data, valid_weights, data, items,
                   history_cache, period, exception, stack, all_stocks,
                   session_state>>

\* mutant: line 122 never finds a new preference
PreferenceChanged_Never(ss, sust_pref) == FALSE

\* line 122: the radio shows another preference than the stored one
PreferenceChanged(ss, sust_pref) == ss.sustainability_preference # sust_pref

\* show_profile_tab up to line 126: the radios, the button and the test
\* of line 122
ProfileUpdate ==
    \* lines 86-120, the button "Mettre à jour le profil" not pressed
    \/ /\ pc = "profile_tab"
       /\ widgets.button # "profile"
       /\ pc' = "construction_tab"
       /\ UNCHANGED <<filterVars, metricsVars, tickers, weights, loop_index,
                      hist, locals, normalized_weights, portfolio_returns,
                      portfolio_value, benchmark, benchmark_returns,
                      benchmark_values, error_logged, portfolio,
                      sustainability_preference, stock_data, price_history,
                      working_portfolio, queried, stock_cache, stock_feed,
                      later_data, objects, metrics, item_index, stocks_data,
                      valid_weights, data, items, history_cache, history_feed,
                      period, exception, stack, all_stocks, widgets,
                      run_session, runs, session_state>>
    \* lines 120-126, the button pressed with a new preference: the portfolio
    \* is emptied, all_stocks is the empty list
    \/ /\ pc = "profile_tab"
       /\ widgets.button = "profile"
       /\ PreferenceChanged(session_state, widgets.sust_pref)
       /\ pc' = "profile_loop"
       /\ session_state' = [session_state EXCEPT !.portfolio = <<>>]
       /\ all_stocks' = <<>>
       /\ stock_data' = <<>>
       /\ item_index' = 1
       /\ UNCHANGED <<filterVars, metricsVars, tickers, weights, loop_index,
                      hist, locals, normalized_weights, portfolio_returns,
                      portfolio_value, benchmark, benchmark_returns,
                      benchmark_values, error_logged, portfolio,
                      sustainability_preference, price_history,
                      working_portfolio, queried, stock_cache, stock_feed,
                      later_data, objects, metrics, stocks_data, valid_weights,
                      data, items, history_cache, history_feed, period,
                      exception, stack, widgets, run_session, runs>>
    \* lines 120-122, the button pressed with the stored preference
    \/ /\ pc = "profile_tab"
       /\ widgets.button = "profile"
       /\ ~PreferenceChanged(session_state, widgets.sust_pref)
       /\ pc' = "profile_risk"
       /\ UNCHANGED <<filterVars, metricsVars, tickers, weights, loop_index,
                      hist, locals, normalized_weights, portfolio_returns,
                      portfolio_value, benchmark, benchmark_returns,
                      benchmark_values, error_logged, portfolio,
                      sustainability_preference, stock_data, price_history,
                      working_portfolio, queried, stock_cache, stock_feed,
                      later_data, objects, metrics, item_index, stocks_data,
                      valid_weights, data, items, history_cache, history_feed,
                      period, exception, stack, all_stocks, widgets,
                      run_session, runs, session_state>>

\* lines 127-131 and 151-155, one turn of the loop over the default
\* tickers: get_stock_data(ticker), and the dict it returns is appended to
\* all_stocks
AllStocksLoop ==
    /\ pc \in {"profile_loop", "universe_loop"}
    /\ item_index <= Len(DEFAULT_TICKERS)
    /\ item_index' = item_index + 1
    /\ \E ticker \in {DEFAULT_TICKERS[item_index]} :
        \E answer \in {StockDataAnswer(ticker)} :
            /\ StockDataReturned(ticker, answer, FALSE)
            /\ stock_data' = (ticker :> answer.data) @@ stock_data
            /\ all_stocks' =
                 IF answer.data # None THEN Append(all_stocks, answer.data)
                 ELSE all_stocks
    /\ UNCHANGED <<filterVars, metricsVars, pc, tickers, weights,
                   loop_index, hist, locals, normalized_weights,
                   portfolio_returns, portfolio_value, benchmark,
                   benchmark_returns, benchmark_values, portfolio,
                   sustainability_preference, price_history,
                   working_portfolio, later_data, objects, metrics,
                   stocks_data, valid_weights, data, history_cache,
                   history_feed, period, exception, stack, widgets,
                   run_session, runs, session_state>>

\* lines 133-136: the universe of the preference the radio shows is stored
ProfileFilter ==
    /\ pc = "profile_loop"
    /\ item_index > Len(DEFAULT_TICKERS)
    /\ pc' = "profile_risk"
    /\ \E kept \in {filter_stocks_by_preference(all_stocks,
                                                widgets.sust_pref)} :
        /\ stocks' = all_stocks
        /\ preference' = widgets.sust_pref
        /\ filtered_stocks' = kept
        /\ session_state' = [session_state EXCEPT !.filtered_stocks = kept]
    /\ UNCHANGED <<metricsVars, refiltered_stocks, tickers, weights,
                   loop_index, hist, locals, normalized_weights,
                   portfolio_returns, portfolio_value, benchmark,
                   benchmark_returns, benchmark_values, error_logged,
                   portfolio, sustainability_preference, stock_data,
                   price_history, working_portfolio, queried, stock_cache,
                   stock_feed, later_data, objects, metrics, item_index,
                   stocks_data, valid_weights, data, items, history_cache,
                   history_feed, period, exception, stack, all_stocks,
                   widgets, run_session, runs>>

\* line 138
ProfileRisk ==
    /\ pc = "profile_risk"
    /\ pc' = "profile_preference"
    /\ session_state' =
         [session_state EXCEPT !.risk_profile = widgets.risk_profile]
    /\ UNCHANGED <<filterVars, metricsVars, tickers, weights, loop_index,
                   hist, locals, normalized_weights, portfolio_returns,
                   portfolio_value, benchmark, benchmark_returns,
                   benchmark_values, error_logged, portfolio,
                   sustainability_preference, stock_data, price_history,
                   working_portfolio, queried, stock_cache, stock_feed,
                   later_data, objects, metrics, item_index, stocks_data,
                   valid_weights, data, items, history_cache, history_feed,
                   period, exception, stack, all_stocks, widgets,
                   run_session, runs>>

\* line 139
ProfilePreference ==
    /\ pc = "profile_preference"
    /\ pc' = "profile_updated"
    /\ session_state' =
         [session_state EXCEPT
            !.sustainability_preference = widgets.sust_pref]
    /\ UNCHANGED <<filterVars, metricsVars, tickers, weights, loop_index,
                   hist, locals, normalized_weights, portfolio_returns,
                   portfolio_value, benchmark, benchmark_returns,
                   benchmark_values, error_logged, portfolio,
                   sustainability_preference, stock_data, price_history,
                   working_portfolio, queried, stock_cache, stock_feed,
                   later_data, objects, metrics, item_index, stocks_data,
                   valid_weights, data, items, history_cache, history_feed,
                   period, exception, stack, all_stocks, widgets,
                   run_session, runs>>

\* line 140: the handler is over
ProfileUpdated ==
    /\ pc = "profile_updated"
    /\ pc' = "construction_tab"
    /\ UNCHANGED <<filterVars, metricsVars, tickers, weights, loop_index,
                   hist, locals, normalized_weights, portfolio_returns,
                   portfolio_value, benchmark, benchmark_returns,
                   benchmark_values, error_logged, portfolio,
                   sustainability_preference, stock_data, price_history,
                   working_portfolio, queried, stock_cache, stock_feed,
                   later_data, objects, metrics, item_index, stocks_data,
                   valid_weights, data, items, history_cache, history_feed,
                   period, exception, stack, all_stocks, widgets,
                   run_session, runs, session_state>>

\* show_construction_tab, lines 142-150: the test of line 149
ConstructionTab ==
    \* lines 143-149 with a stored universe
    \/ /\ pc = "construction_tab"
       /\ session_state.filtered_stocks # <<>>
       /\ pc' = "weights_form"
       /\ UNCHANGED <<filterVars, metricsVars, tickers, weights, loop_index,
                      hist, locals, normalized_weights, portfolio_returns,
                      portfolio_value, benchmark, benchmark_returns,
                      benchmark_values, error_logged, portfolio,
                      sustainability_preference, stock_data, price_history,
                      working_portfolio, queried, stock_cache, stock_feed,
                      later_data, objects, metrics, item_index, stocks_data,
                      valid_weights, data, items, history_cache, history_feed,
                      period, exception, stack, all_stocks, widgets,
                      run_session, runs, session_state>>
    \* lines 143-150 without stored universe: all_stocks is the empty list
    \/ /\ pc = "construction_tab"
       /\ session_state.filtered_stocks = <<>>
       /\ pc' = "universe_loop"
       /\ all_stocks' = <<>>
       /\ stock_data' = <<>>
       /\ item_index' = 1
       /\ UNCHANGED <<filterVars, metricsVars, tickers, weights, loop_index,
                      hist, locals, normalized_weights, portfolio_returns,
                      portfolio_value, benchmark, benchmark_returns,
                      benchmark_values, error_logged, portfolio,
                      sustainability_preference, price_history,
                      working_portfolio, queried, stock_cache, stock_feed,
                      later_data, objects, metrics, stocks_data, valid_weights,
                      data, items, history_cache, history_feed, period,
                      exception, stack, widgets, run_session, runs,
                      session_state>>

\* lines 157-160: the universe of the stored preference is stored
UniverseFilter ==
    /\ pc = "universe_loop"
    /\ item_index > Len(DEFAULT_TICKERS)
    /\ pc' = "weights_form"
    /\ \E kept \in {filter_stocks_by_preference(
                        all_stocks,
                        session_state.sustainability_preference)} :
        /\ stocks' = all_stocks
        /\ preference' = session_state.sustainability_preference
        /\ filtered_stocks' = kept
        /\ session_state' = [session_state EXCEPT !.filtered_stocks = kept]
    /\ UNCHANGED <<metricsVars, refiltered_stocks, tickers, weights,
                   loop_index, hist, locals, normalized_weights,
                   portfolio_returns, portfolio_value, benchmark,
                   benchmark_returns, benchmark_values, error_logged,
                   portfolio, sustainability_preference, stock_data,
                   price_history, working_portfolio, queried, stock_cache,
                   stock_feed, later_data, objects, metrics, item_index,
                   stocks_data, valid_weights, data, items, history_cache,
                   history_feed, period, exception, stack, all_stocks,
                   widgets, run_session, runs>>

\* lines 163-166: the tickers of the universe
FilteredTickers(ss) ==
    {ss.filtered_stocks[i].ticker : i \in DOMAIN ss.filtered_stocks}

\* the values typed in the number inputs (min 0.0, max 100.0): 50.01 and
\* 99.99 among them
WeightInputs == {Number(0), Number(50), Frac(5001, 100), Frac(9999, 100)}

\* lines 219-240 for the values of the number inputs, in the order of the
\* inputs: total_weight = 0 and total_weight += weight over them, then
\* abs(total_weight - 100) > 0.01, all on float64
Warns(inputs) ==
    LET total_weight_entered ==
            FloatFold(Double(Number(0)),
                      [k \in DOMAIN inputs |-> Double(inputs[k])],
                      0, Len(inputs))
    IN  Greater(FloatDistance(total_weight_entered, Double(Number(100))),
                Double(Frac(1, 100)))

\* line 240 on the sequences over WeightInputs, evaluated once
WarnsTable ==
    [inputs \in UNION {[1..n -> WeightInputs] :
                           n \in 1..Len(DEFAULT_TICKERS)} |-> Warns(inputs)]
        @@ <<>>

\* lines 168-245 when the button "Valider le portefeuille" is pressed: the
\* button exists when a ticker is checked and the total is in tolerance;
\* selected_tickers are the checked tickers in the order of DEFAULT_TICKERS
ValidatePortfolio(ss, checked, entered) ==
    LET selected_tickers ==
            SelectSeq(DEFAULT_TICKERS, LAMBDA ticker : ticker \in checked)
        inputs == [k \in DOMAIN selected_tickers |->
                       entered[selected_tickers[k]]]
    IN  IF selected_tickers = <<>> THEN ss
        ELSE IF (IF inputs \in DOMAIN WarnsTable THEN WarnsTable[inputs]
                 ELSE Warns(inputs))
        THEN ss
        ELSE [ss EXCEPT !.portfolio =
                 [k \in DOMAIN selected_tickers |->
                     <<selected_tickers[k],
                       Div(entered[selected_tickers[k]], Number(100))>>]]

\* show_construction_tab, lines 163-245: the form of the weights
PortfolioValidation ==
    \* lines 163-245, the button "Valider le portefeuille" not pressed
    \/ /\ pc = "weights_form"
       /\ widgets.button # "validate"
       /\ pc' = "esg_dashboard"
       /\ UNCHANGED <<filterVars, metricsVars, tickers, weights, loop_index,
                      hist, locals, normalized_weights, portfolio_returns,
                      portfolio_value, benchmark, benchmark_returns,
                      benchmark_values, error_logged, portfolio,
                      sustainability_preference, stock_data, price_history,
                      working_portfolio, queried, stock_cache, stock_feed,
                      later_data, objects, metrics, item_index, stocks_data,
                      valid_weights, data, items, history_cache, history_feed,
                      period, exception, stack, all_stocks, widgets,
                      run_session, runs, session_state>>
    \* lines 163-245 of the run that follows a press of "Valider le
    \* portefeuille": the check boxes and number inputs of the universe hold
    \* what the user left in them
    \/ /\ pc = "weights_form"
       /\ widgets.button = "validate"
       /\ pc' = "esg_dashboard"
       /\ \E checked \in SUBSET FilteredTickers(session_state) :
           \E entered \in [checked -> WeightInputs] :
               session_state' = ValidatePortfolio(session_state, checked, entered)
       /\ UNCHANGED <<filterVars, metricsVars, tickers, weights, loop_index,
                      hist, locals, normalized_weights, portfolio_returns,
                      portfolio_value, benchmark, benchmark_returns,
                      benchmark_values, error_logged, portfolio,
                      sustainability_preference, stock_data, price_history,
                      working_portfolio, queried, stock_cache, stock_feed,
                      later_data, objects, metrics, item_index, stocks_data,
                      valid_weights, data, items, history_cache, history_feed,
                      period, exception, stack, all_stocks, widgets,
                      run_session, runs>>

\* st.session_state.portfolio as the tabs hand it to the calls: every
\* division of the calls is weight / (sum of weights), so the fractions are
\* given in units of their least common denominator (CommonDenominator(k)
\* is the one of the first k stored weights)
WholeWeights(pf) ==
    LET RECURSIVE CommonDenominator(_)
        CommonDenominator(k) ==
            IF k = 0 THEN 1
            ELSE (CommonDenominator(k - 1) * pf[k][2][2])
                     \div GCD(CommonDenominator(k - 1), pf[k][2][2])
    IN  [k \in DOMAIN pf |->
            <<pf[k][1],
              pf[k][2][1] * (CommonDenominator(Len(pf)) \div pf[k][2][2])>>]

\* a call calculate_portfolio_metrics(pf, start_date, end_date, benchmark,
\* sustainability_preference) of a tab, which goes on at `resume`
PortfolioCalled(pf, pref, bench, dates, resume) ==
    /\ pc' = "portfolio_called"
    /\ stack' = <<resume>> \o stack
    /\ portfolio' = pf
    /\ sustainability_preference' = pref
    /\ benchmark' = bench
    /\ period' = dates
    /\ objects' = Build(NoObjects, "portfolio")

\* show_esg_dashboard_tab, lines 247-258
EsgDashboardTab ==
    \* lines 247-258 with a stored portfolio: the call without dates and
    \* without benchmark
    \/ /\ pc = "esg_dashboard"
       /\ session_state.portfolio # <<>>
       /\ PortfolioCalled(WholeWeights(session_state.portfolio),
                          session_state.sustainability_preference,
                          "", <<"", "">>, "risk_analysis")
       /\ UNCHANGED <<filterVars, metricsVars, tickers, weights, loop_index,
                      hist, locals, normalized_weights, portfolio_returns,
                      portfolio_value, benchmark_returns, benchmark_values,
                      error_logged, stock_data, price_history,
                      working_portfolio, queried, stock_cache, stock_feed,
                      later_data, metrics, item_index, stocks_data,
                      valid_weights, data, items, history_cache, history_feed,
                      exception, all_stocks, widgets, run_session, runs,
                      session_state>>
    \* lines 247-252 without stored portfolio
    \/ /\ pc = "esg_dashboard"
       /\ session_state.portfolio = <<>>
       /\ pc' = "risk_analysis"
       /\ UNCHANGED <<filterVars, metricsVars, tickers, weights, loop_index,
                      hist, locals, normalized_weights, portfolio_returns,
                      portfolio_value, benchmark, benchmark_returns,
                      benchmark_values, error_logged, portfolio,
                      sustainability_preference, stock_data, price_history,
                      working_portfolio, queried, stock_cache, stock_feed,
                      later_data, objects, metrics, item_index, stocks_data,
                      valid_weights, data, items, history_cache, history_feed,
                      period, exception, stack, all_stocks, widgets,
                      run_session, runs, session_state>>

\* show_risk_analysis_tab, lines 294-338
RiskAnalysisTab ==
    \* lines 294-338 with a stored portfolio: the call with the dates and the
    \* index of the widgets, the index of the stored risk profile by default
    \/ /\ pc = "risk_analysis"
       /\ session_state.portfolio # <<>>
       /\ PortfolioCalled(WholeWeights(session_state.portfolio),
                          session_state.sustainability_preference,
                          IF widgets.benchmark = ""
                          THEN DEFAULT_BENCHMARKS[session_state.risk_profile]
                          ELSE widgets.benchmark,
                          widgets.period, "performance_history")
       /\ UNCHANGED <<filterVars, metricsVars, tickers, weights, loop_index,
                      hist, locals, normalized_weights, portfolio_returns,
                      portfolio_value, benchmark_returns, benchmark_values,
                      error_logged, stock_data, price_history,
                      working_portfolio, queried, stock_cache, stock_feed,
                      later_data, metrics, item_index, stocks_data,
                      valid_weights, data, items, history_cache, history_feed,
                      exception, all_stocks, widgets, run_session, runs,
                      session_state>>
    \* lines 294-299 without stored portfolio: the run is over
    \/ /\ pc = "risk_analysis"
       /\ session_state.portfolio = <<>>
       /\ pc' = "run_over"
       /\ UNCHANGED <<filterVars, metricsVars, tickers, weights, loop_index,
                      hist, locals, normalized_weights, portfolio_returns,
                      portfolio_value, benchmark, benchmark_returns,
                      benchmark_values, error_logged, portfolio,
                      sustainability_preference, stock_data, price_history,
                      working_portfolio, queried, stock_cache, stock_feed,
                      later_data, objects, metrics, item_index, stocks_data,
                      valid_weights, data, items, history_cache, history_feed,
                      period, exception, stack, all_stocks, widgets,
                      run_session, runs, session_state>>

\* lines 384-389: the series of the stored portfolio, all its tickers
PerformanceHistory ==
    /\ pc = "performance_history"
    /\ SeriesThroughCache(384,
                          Keys(WholeWeights(session_state.portfolio)),
                          Values(WholeWeights(session_state.portfolio)),
                          "benchmark_history")
    /\ UNCHANGED <<filterVars, metricsVars, hist, benchmark,
                   benchmark_returns, benchmark_values, error_logged,
                   portfolio, sustainability_preference, stock_data,
                   price_history, working_portfolio, queried, stock_cache,
                   stock_feed, later_data, objects, metrics, item_index,
                   stocks_data, valid_weights, data, items, history_cache,
                   history_feed, period, exception, all_stocks, widgets,
                   run_session, runs, session_state>>

\* lines 391-399: the series of the index, then the list of line 405 at
\* its first ticker
BenchmarkHistory ==
    /\ pc = "benchmark_history"
    /\ BenchmarkThroughCache(391, benchmark, "portfolio_data")
    /\ item_index' = 1
    /\ UNCHANGED <<filterVars, metricsVars, tickers, weights, loop_index,
                   locals, normalized_weights, portfolio_returns,
                   portfolio_value, benchmark, portfolio,
                   sustainability_preference, stock_data, price_history,
                   working_portfolio, stock_cache, stock_feed, later_data,
                   objects, metrics, stocks_data, valid_weights, data,
                   items, history_feed, period, exception, stack,
                   all_stocks, widgets, run_session, runs, session_state>>

\* lines 405-413: the list portfolio_data, one call of get_stock_data for
\* each ticker of the stored portfolio
PortfolioData ==
    \* lines 405-408, one ticker of the list: get_stock_data(ticker)
    \/ /\ pc = "portfolio_data"
       /\ item_index <= Len(session_state.portfolio)
       /\ item_index' = item_index + 1
       /\ \E ticker \in {session_state.portfolio[item_index][1]} :
           \E answer \in {StockDataAnswer(ticker)} :
               /\ StockDataReturned(ticker, answer, FALSE)
       /\ UNCHANGED <<filterVars, metricsVars, pc, tickers, weights,
                      loop_index, hist, locals, normalized_weights,
                      portfolio_returns, portfolio_value, benchmark,
                      benchmark_returns, benchmark_values, portfolio,
                      sustainability_preference, stock_data, price_history,
                      working_portfolio, later_data, objects, metrics,
                      stocks_data, valid_weights, data, history_cache,
                      history_feed, period, exception, stack, all_stocks,
                      widgets, run_session, runs, session_state>>
    \* lines 410-413: the last chart
    \/ /\ pc = "portfolio_data"
       /\ item_index > Len(session_state.portfolio)
       /\ pc' = "run_over"
       /\ UNCHANGED <<filterVars, metricsVars, tickers, weights, loop_index,
                      hist, locals, normalized_weights, portfolio_returns,
                      portfolio_value, benchmark, benchmark_returns,
                      benchmark_values, error_logged, portfolio,
                      sustainability_preference, stock_data, price_history,
                      working_portfolio, queried, stock_cache, stock_feed,
                      later_data, objects, metrics, item_index, stocks_data,
                      valid_weights, data, items, history_cache, history_feed,
                      period, exception, stack, all_stocks, widgets,
                      run_session, runs, session_state>>

\* the run is given up: the frames of the script and of the calls in
\* progress, the widgets and what the data source held for the run;
\* st.session_state and the entries of st.cache_data stay
RunLeft ==
    /\ stocks' = <<>>
    /\ preference' = ""
    /\ filtered_stocks' = <<>>
    /\ refiltered_stocks' = <<>>
    /\ tickers' = <<>>
    /\ weights' = <<>>
    /\ loop_index' = 1
    /\ hist' = <<>>
    /\ locals' = EmptyLocals
    /\ normalized_weights' = <<>>
    /\ portfolio_returns' = <<>>
    /\ portfolio_value' = <<>>
    /\ benchmark' = ""
    /\ benchmark_returns' = <<>>
    /\ benchmark_values' = <<>>
    /\ error_logged' = FALSE
    /\ metrics_returns' = <<>>
    /\ metrics_benchmark' = None
    /\ performance_metrics' = <<>>
    /\ portfolio' = <<>>
    /\ sustainability_preference' = ""
    /\ stock_data' = <<>>
    /\ price_history' = <<>>
    /\ working_portfolio' = <<>>
    /\ queried' = {}
    /\ stock_feed' = <<>>
    /\ later_data' = <<>>
    /\ objects' = NoObjects
    /\ metrics' = EmptyMetrics
    /\ item_index' = 1
    /\ stocks_data' = <<>>
    /\ valid_weights' = <<>>
    /\ data' = None
    /\ items' = [returned |-> 0, stocks_data |-> <<>>,
                 filtered_stocks |-> <<>>]
    /\ history_feed' = {}
    /\ period' = <<"", "">>
    /\ exception' = ""
    /\ stack' = <<>>
    /\ all_stocks' = <<>>
    /\ widgets' = NoWidgets
    /\ run_session' = <<>>

\* the user interacts while the script runs, or the session ends.  The
\* script thread finds the request at an element of the page or at an
\* access to st.session_state, that is between the statements of the tabs
\* followed here, or at a call of a cached function inside
\* calculate_portfolio_metrics; line 345 of data_manager.py does not
\* handle the exception, and the run ends where it is.
ScriptStopped ==
    /\ pc \in {"profile_tab", "profile_loop", "profile_risk",
               "profile_preference", "profile_updated", "construction_tab",
               "universe_loop", "weights_form", "esg_dashboard",
               "risk_analysis", "performance_history", "benchmark_history",
               "portfolio_data"} \cup CallYields
    /\ runs > 0
    /\ \E error \in ScriptControl : ~Handled(error)
    /\ pc' = "idle"
    /\ RunLeft
    /\ UNCHANGED <<stock_cache, history_cache, runs, session_state>>

\* line 413 is done: the run ends
RunEnds ==
    /\ pc = "run_over"
    /\ pc' = "idle"
    /\ RunLeft
    /\ UNCHANGED <<stock_cache, history_cache, runs, session_state>>

NextApp ==
    \/ AppRerun
    \/ ProfileUpdate
    \/ AllStocksLoop
    \/ ProfileFilter
    \/ ProfileRisk
    \/ ProfilePreference
    \/ ProfileUpdated
    \/ ConstructionTab
    \/ UniverseFilter
    \/ PortfolioValidation
    \/ EsgDashboardTab
    \/ RiskAnalysisTab
    \/ PortfolioMetricsEnter
    \/ StocksLoop
    \/ FilterPortfolio
    \/ SeriesCall
    \/ SeriesFetch
    \/ SeriesResult
    \/ BenchmarkOfPortfolio
    \/ MeasurePerformance
    \/ WeightsLoop
    \/ WeightsCounted
    \/ EsgCall
    \/ EsgAdd
    \/ PortfolioMetricsReturn
    \/ PerformanceHistory
    \/ BenchmarkHistory
    \/ PortfolioData
    \/ ScriptStopped
    \/ RunEnds

SpecApp == Init /\ [][NextApp]_vars

----------------------------------------------------------------------------
(* Properties of the session *)

AbsFrac(x) == <<Abs(x[1]), x[2]>>

\* the sum of the stored weights
RECURSIVE StoredTotal(_, _)
StoredTotal(pf, k) ==
    IF k = 0 THEN Number(0) ELSE Add(StoredTotal(pf, k - 1), pf[k][2])

\* the universe of a preference for the records get_stock_data answered
UniverseFor(pref, answers) ==
    filter_stocks_by_preference(
        Map(answers,
            SelectSeq(DEFAULT_TICKERS,
                      LAMBDA ticker : answers[ticker] # None)),
        pref)

\* the handler of "Mettre à jour le profil" has run to its end (line 140);
\* before it st.session_state was run_session.  With a new preference the
\* portfolio is empty and the universe is the one of the new preference,
\* for the records the handler got for the default tickers; with the same
\* preference and another risk profile the portfolio is the one before.
\* Both choices of the radios are stored.
ProfileChangeRule ==
    pc = "profile_updated" =>
        /\ session_state.risk_profile = widgets.risk_profile
        /\ session_state.sustainability_preference = widgets.sust_pref
        /\ session_state.sustainability_preference
               # run_session.sustainability_preference =>
              /\ session_state.portfolio = <<>>
              /\ DOMAIN stock_data =
                     {DEFAULT_TICKERS[i] : i \in DOMAIN DEFAULT_TICKERS}
              /\ session_state.filtered_stocks =
                     UniverseFor(session_state.sustainability_preference,
                                 stock_data)
        /\ (/\ session_state.sustainability_preference
                   = run_session.sustainability_preference
            /\ session_state.risk_profile # run_session.risk_profile) =>
              session_state.portfolio = run_session.portfolio

\* a stored portfolio has fractions that sum to 1 within 0.0001, that is
\* entered weights that total 100 within 0.01, and tickers of the universe
StoredPortfolioRule(ss) ==
    ss.portfolio # <<>> =>
        LET total == StoredTotal(ss.portfolio, Len(ss.portfolio))
        IN  /\ ~Less(Frac(1, 10000), AbsFrac(Sub(total, Number(1))))
            /\ ~Less(Frac(1, 100),
                     AbsFrac(Sub(Mul(total, Number(100)), Number(100))))
            /\ \A k \in DOMAIN ss.portfolio :
                  ss.portfolio[k][1] \in FilteredTickers(ss)

\* C25: in the session state, after any sequence of profile updates and
\* portfolio validations: (1) a profile update that changes the
\* sustainability preference empties the stored portfolio and recomputes
\* the filtered universe for the new preference in the same step, and one
\* that changes only the risk profile leaves the portfolio unchanged;
\* (2) a portfolio is stored only when the entered weights total 100 within
\* 0.01, so every non-empty stored portfolio has fractions summing to 1
\* within 0.0001 and only tickers of the filtered universe.
C25_SessionRules == ProfileChangeRule /\ StoredPortfolioRule(session_state)

\* a second run: the preference changes with a portfolio stored, which is
\* emptied while the universe of the new preference has a ticker
C25_Witness ==
    /\ pc = "profile_updated"
    /\ run_session.portfolio # <<>>
    /\ run_session.sustainability_preference
           # session_state.sustainability_preference
    /\ session_state.portfolio = <<>>
    /\ session_state.filtered_stocks # <<>>
    /\ session_state.filtered_stocks # run_session.filtered_stocks

\* a second run: the risk profile alone changes, the stored weights 50 and
\* 50.01 stay
C25_WitnessRiskOnly ==
    /\ pc = "profile_updated"
    /\ run_session.risk_profile # session_state.risk_profile
    /\ run_session.sustainability_preference
           = session_state.sustainability_preference
    /\ session_state.portfolio = <<<<"A", Frac(1, 2)>>, <<"B", Frac(5001, 10000)>>>>

====
